---- MODULE Spec2Model ----
(***************************************************************************)
(* A model of the report generation pipeline of                            *)
(* backend/app/services/report_agent.py: the tool-call parser, the tool    *)
(* dispatcher, the outline planner, the ReACT section loop, the            *)
(* orchestrator generate_report and the file store ReportManager.          *)
(*                                                                         *)
(* Texts are sequences of lexical tokens.  A token is a maximal lexeme of  *)
(* the model's reply:                                                      *)
(*   "s"        a run of whitespace that holds no line break               *)
(*   "nl"       a run of whitespace that holds a line break                *)
(*   "FA"       the literal  Final Answer:                                 *)
(*   "O", "C"   the tags <tool_call> and </tool_call>                      *)
(*   "{", "}"   the braces of a JSON object                                *)
(*   "n1", "n2" the JSON members "name": "search_graph" and                *)
(*              "name": "no_such_tool"                                     *)
(*   "p"        the JSON member "parameters": {"query": "alpha"}           *)
(*   "pbad"     the JSON member "parameters": "alpha" (not an object)      *)
(*   "x"        text that is not JSON                                      *)
(*   "T"        the literal [TOOL_CALL]                                    *)
(*   "(", ")"   parentheses                                                *)
(*   "kq"       query="alpha"  (a quoted parameter value)                  *)
(*   "ku"       limit=5        (an unquoted parameter value)               *)
(*   a word     a maximal run of \w characters (Words)                     *)
(***************************************************************************)
EXTENDS Integers, Sequences, FiniteSets, TLC

\* ---------------------------------------------------------------- bounds

\* Number of chunks a parsed text is built from.
MaxChunks == 3

\* The largest numbers of sections, and of subsections of a section, in the
\* structured objects handed to the planner alone.
MaxPlanSections == 6
MaxPlanSubsections == 3

\* The largest numbers of sections, and of subsections of a section, in the
\* outlines of the checked runs of generate_report.
MaxSections == 2
MaxSubsections == 2

\* The number of calls made on ReportManager from outside a run
MaxOps == 4

\* The number of report ids in the reports directory
MaxReports == 2

\* The largest number of keywords of a search query, and the largest number
\* of edges of the searched graph
MaxKeywords == 5
MaxEdges == 2

\* The number of calls of add_activity on one updater
MaxActivities == 2

\* ------------------------------------------------------- program constants

\* ReportAgent.MAX_TOOL_CALLS_PER_SECTION
MAX_TOOL_CALLS_PER_SECTION == 5

\* ------------------------------------------------------------------ texts

ToolNames ==
    {"search_graph", "get_graph_statistics", "get_entity_summary",
     "get_simulation_context", "get_entities_by_type"}

Words == {"Hello", "world", "search_graph", "get_graph_statistics", "no_such_tool"}

JsonMembers == {"n1", "n2", "p", "pbad"}

\* What \s matches.
Whitespace == {"s", "nl"}

Tokens ==
    {"s", "nl", "FA", "O", "C", "{", "}", "x", "T", "(", ")", "kq", "ku"}
        \cup JsonMembers \cup Words

\* The chunks the checked texts are concatenated from.
Chunks ==
    { <<"Hello">>,
      <<"s">>,
      <<"FA">>,
      <<"O", "s", "{", "n1", "p", "}", "s", "C">>,
      <<"O", "{", "n2", "}", "C">>,
      <<"O", "{", "p", "}", "C">>,
      <<"O", "{", "x", "}", "C">>,
      <<"O", "{", "n1", "pbad", "}">>,
      <<"C">>,
      <<"T", "s", "get_graph_statistics", "(", ")">>,
      <<"T", "search_graph", "(", "kq", "s", "ku", ")">> }

RECURSIVE TextsOf(_)
TextsOf(n) ==
    IF n = 0 THEN { <<>> }
    ELSE LET shorter == TextsOf(n - 1)
         IN  shorter \cup { t \o c : t \in shorter, c \in Chunks }

Texts == TextsOf(MaxChunks)

\* ------------------------------------------------------------ tool calls

\* A parsed call is the dictionary the parser appends: `fields` is the set of
\* keys present; `name` and `parameters` are meaningful only when their key is.
NoParameters == [is_mapping |-> TRUE, items |-> {}]

ToolCall(fields, name, parameters) ==
    [fields |-> fields, name |-> name, parameters |-> parameters]

\* ---------------------------------------------------------- regex helpers

\* \s* : the first position at or after i that holds no whitespace.
RECURSIVE SkipWs(_, _)
SkipWs(t, i) ==
    IF i <= Len(t) /\ t[i] \in Whitespace THEN SkipWs(t, i + 1) ELSE i

Min(S) == CHOOSE m \in S : \A n \in S : m <= n
Max(S) == CHOOSE m \in S : \A n \in S : m >= n

\* <tool_call>\s*(\{.*?\})\s*</tool_call> anchored at i (re.DOTALL): the lazy
\* body ends at the first "}" that is followed by \s*</tool_call>.
XmlCloses(t, a) ==
    { j \in (a + 1)..Len(t) :
        /\ t[j] = "}"
        /\ LET c == SkipWs(t, j + 1) IN c <= Len(t) /\ t[c] = "C" }

XmlMatchAt(t, i) ==
    LET a == SkipWs(t, i + 1)
    IN  IF t[i] = "O" /\ a <= Len(t) /\ t[a] = "{" /\ XmlCloses(t, a) # {}
        THEN LET j == Min(XmlCloses(t, a))
             IN  [ok |-> TRUE, start |-> i, group1 |-> SubSeq(t, a, j),
                  end |-> SkipWs(t, j + 1)]
        ELSE [ok |-> FALSE, start |-> i, group1 |-> <<>>, end |-> i]

\* \[TOOL_CALL\]\s*(\w+)\s*\((.*?)\) anchored at i (re.DOTALL).
FuncCloses(t, b) == { j \in (b + 1)..Len(t) : t[j] = ")" }

FuncMatchAt(t, i) ==
    LET a == SkipWs(t, i + 1)
        b == SkipWs(t, a + 1)
    IN  IF /\ t[i] = "T"
           /\ a <= Len(t) /\ t[a] \in Words
           /\ b <= Len(t) /\ t[b] = "("
           /\ FuncCloses(t, b) # {}
        THEN LET j == Min(FuncCloses(t, b))
             IN  [ok |-> TRUE, start |-> i, group1 |-> t[a],
                  group2 |-> SubSeq(t, b + 1, j - 1), end |-> j]
        ELSE [ok |-> FALSE, start |-> i, group1 |-> "", group2 |-> <<>>, end |-> i]

\* re.finditer: the non-overlapping matches, left to right.
RECURSIVE XmlFindIter(_, _)
XmlFindIter(t, i) ==
    IF i > Len(t) THEN <<>>
    ELSE LET m == XmlMatchAt(t, i)
         IN  IF m.ok THEN <<m>> \o XmlFindIter(t, m.end + 1)
             ELSE XmlFindIter(t, i + 1)

RECURSIVE FuncFindIter(_, _)
FuncFindIter(t, i) ==
    IF i > Len(t) THEN <<>>
    ELSE LET m == FuncMatchAt(t, i)
         IN  IF m.ok THEN <<m>> \o FuncFindIter(t, m.end + 1)
             ELSE FuncFindIter(t, i + 1)

\* ------------------------------------------------------------ json.loads

\* The body is "{" ... "}"; it is a JSON object when everything between the
\* braces is a member or whitespace.
JsonInner(body) == SubSeq(body, 2, Len(body) - 1)

JsonValid(body) ==
    \A k \in 1..Len(JsonInner(body)) : JsonInner(body)[k] \in JsonMembers \cup Whitespace

\* The last occurrence of a key wins.
LastOf(inner, keys) ==
    LET at == { k \in 1..Len(inner) : inner[k] \in keys }
    IN  IF at = {} THEN "" ELSE inner[Max(at)]

JsonLoads(body) ==
    LET inner == JsonInner(body)
        nm    == LastOf(inner, {"n1", "n2"})
        pm    == LastOf(inner, {"p", "pbad"})
    IN  ToolCall(
            (IF nm = "" THEN {} ELSE {"name"})
                \cup (IF pm = "" THEN {} ELSE {"parameters"}),
            IF nm = "n1" THEN "search_graph"
            ELSE IF nm = "n2" THEN "no_such_tool" ELSE "",
            IF pm = "p" THEN [is_mapping |-> TRUE, items |-> {<<"query", "alpha">>}]
            ELSE IF pm = "pbad" THEN [is_mapping |-> FALSE, items |-> {}]
            ELSE NoParameters)

\* ------------------------------------------------------- _parse_tool_calls

\* Grammar A: every match whose body json.loads accepts is appended as it is;
\* a JSONDecodeError is passed over.  Each entry keeps the grammar and the
\* position of its match beside the call.
RECURSIVE XmlCalls(_)
XmlCalls(ms) ==
    IF ms = <<>> THEN <<>>
    ELSE (IF JsonValid(Head(ms).group1)
          THEN << [call |-> JsonLoads(Head(ms).group1), grammar |-> "A",
                   start |-> Head(ms).start] >>
          ELSE <<>>)
            \o XmlCalls(Tail(ms))

\* (\w+)\s*=\s*["']([^"']*)["'] over the parameter string.
FuncParams(params_str) ==
    [is_mapping |-> TRUE,
     items |-> { <<"query", "alpha">> : k \in { k \in 1..Len(params_str) : params_str[k] = "kq" } }]

RECURSIVE FuncCalls(_)
FuncCalls(ms) ==
    IF ms = <<>> THEN <<>>
    ELSE << [call |-> ToolCall({"name", "parameters"}, Head(ms).group1,
                               FuncParams(Head(ms).group2)),
             grammar |-> "B", start |-> Head(ms).start] >>
            \o FuncCalls(Tail(ms))

\* A plausible slip: the function-style matches are collected first.
ParseTracedFuncFirst(response) ==
    FuncCalls(FuncFindIter(response, 1)) \o XmlCalls(XmlFindIter(response, 1))

\* tool_calls with, for each call, where it came from.
ParseTraced(response) ==
    XmlCalls(XmlFindIter(response, 1)) \o FuncCalls(FuncFindIter(response, 1))

ParseToolCalls(response) ==
    LET tr == ParseTraced(response) IN [k \in 1..Len(tr) |-> tr[k].call]

ParseOrigins(response) ==
    LET tr == ParseTraced(response)
    IN  [k \in 1..Len(tr) |-> [grammar |-> tr[k].grammar, start |-> tr[k].start]]

\* ----------------------------------------------------------- _execute_tool

\* What the retrieval collaborator does when it is called.
ZepOutcomes == {"ok", "raise_timeout", "raise_api"}

\* The tools whose branch reads parameters.get(...) before the call.
ParamReadingTools ==
    {"search_graph", "get_entity_summary", "get_simulation_context",
     "get_entities_by_type"}

\* The body of the try block: `exc` is the exception it ends with ("" when
\* it returns), `text` what it returns, `zep_called` whether the collaborator
\* was reached.
ExecuteToolBody(tool_name, parameters, outcome) ==
    IF tool_name \notin ToolNames
    THEN [exc |-> "", text |-> [kind |-> "unknown", detail |-> tool_name],
          zep_called |-> FALSE]
    ELSE IF tool_name \in ParamReadingTools /\ ~parameters.is_mapping
    THEN [exc |-> "AttributeError", text |-> [kind |-> "none", detail |-> ""],
          zep_called |-> FALSE]
    ELSE IF outcome # "ok"
    THEN [exc |-> outcome, text |-> [kind |-> "none", detail |-> ""],
          zep_called |-> TRUE]
    ELSE [exc |-> "", text |-> [kind |-> "result", detail |-> tool_name],
          zep_called |-> TRUE]

\* A plausible slip: the try block without its except clause.
ExecuteToolUncaught(tool_name, parameters, outcome) ==
    LET b == ExecuteToolBody(tool_name, parameters, outcome)
    IN  [raised |-> b.exc # "", text |-> b.text, zep_called |-> b.zep_called]

\* try: ... except Exception as e: return the failure text.
ExecuteTool(tool_name, parameters, outcome) ==
    LET b == ExecuteToolBody(tool_name, parameters, outcome)
    IN  [raised |-> FALSE,
         text |-> IF b.exc # "" THEN [kind |-> "error", detail |-> b.exc] ELSE b.text,
         zep_called |-> b.zep_called]

\* ------------------------------------------------- _generate_section_react

\* max_iterations = MAX_TOOL_CALLS_PER_SECTION + 2
MaxIterations == MAX_TOOL_CALLS_PER_SECTION + 2

Range(f) == { f[k] : k \in DOMAIN f }

\* "Final Answer:" in response
HasMarker(response) == "FA" \in Range(response)

\* response.split("Final Answer:")
RECURSIVE SplitOnMarker(_)
SplitOnMarker(t) ==
    IF ~HasMarker(t) THEN <<t>>
    ELSE LET i == Min({ k \in 1..Len(t) : t[k] = "FA" })
         IN  <<SubSeq(t, 1, i - 1)>> \o SplitOnMarker(SubSeq(t, i + 1, Len(t)))

\* str.strip()
RECURSIVE Strip(_)
Strip(t) ==
    IF t # <<>> /\ Head(t) \in Whitespace THEN Strip(Tail(t))
    ELSE IF t # <<>> /\ t[Len(t)] \in Whitespace THEN Strip(SubSeq(t, 1, Len(t) - 1))
    ELSE t

\* A plausible slip: the piece after the first marker, [1] for [-1].
FinalAnswerSecondPiece(response) == Strip(SplitOnMarker(response)[2])

\* response.split("Final Answer:")[-1].strip()
FinalAnswer(response) ==
    LET pieces == SplitOnMarker(response) IN Strip(pieces[Len(pieces)])

\* A plausible slip: > for >= in the budget test.
BudgetExhaustedOffByOne(count) == count > MAX_TOOL_CALLS_PER_SECTION

\* if tool_calls_count >= self.MAX_TOOL_CALLS_PER_SECTION: break
BudgetExhausted(count) == count >= MAX_TOOL_CALLS_PER_SECTION

\* The for loop over the parsed calls, from call k on.  acc holds the
\* tool_results so far, the calls executed, tool_calls_count, and the
\* exception that ended the loop ("" when none did).  call["name"] raises
\* KeyError on a dictionary without that key; call.get("parameters", {})
\* falls back to the empty mapping.
RECURSIVE RunToolCalls(_, _, _, _)
RunToolCalls(calls, outs, k, acc) ==
    IF k > Len(calls) \/ BudgetExhausted(acc.count) THEN acc
    ELSE IF "name" \notin calls[k].fields THEN [acc EXCEPT !.exc = "KeyError"]
    ELSE LET r == ExecuteTool(
                     calls[k].name,
                     IF "parameters" \in calls[k].fields
                     THEN calls[k].parameters ELSE NoParameters,
                     outs[k])
         IN  IF r.raised THEN [acc EXCEPT !.exc = "tool"]
             ELSE RunToolCalls(calls, outs, k + 1,
                     [results  |-> Append(acc.results,
                                          [tool |-> calls[k].name, text |-> r.text]),
                      executed |-> Append(acc.executed, calls[k]),
                      count    |-> acc.count + 1,
                      exc      |-> ""])

\* One entry of the conversation.  kind: "system" and "task" are the two
\* prompts, "reply" an assistant turn, "finalize" the demand to output the
\* final answer, "observation" the tool results, "stop" the notice that the
\* tool limit is reached.
Message(role, kind, text, results) ==
    [role |-> role, kind |-> kind, text |-> text, results |-> results]

\* A plausible slip: the reply is appended without the instruction.
NoCallMessagesReplyOnly(response) ==
    << Message("assistant", "reply", response, <<>>) >>

\* What a round without marker and without call appends: the reply and
\* the instruction to output the final answer from what is known.
NoCallMessages(response) ==
    << Message("assistant", "reply", response, <<>>),
       Message("user", "finalize", <<>>, <<>>) >>

\* What a round with calls appends: the reply and "Observation:", the
\* results, and the invitation to go on thinking or to output the final
\* answer.
ObservationMessages(response, results) ==
    << Message("assistant", "reply", response, <<>>),
       Message("user", "observation", <<>>, results) >>

\* A plausible slip: the text of the call after the last round is returned
\* as it is.
ForcedResultVerbatim(response) == response

\* The text returned after the last round: from the marker on when there is
\* one, otherwise the reply as it is.
ForcedResult(response) ==
    IF HasMarker(response) THEN FinalAnswer(response) ELSE response

\* -------------------------------------------------------------------- chat

\* max_iterations = 3 in chat
CHAT_MAX_ITERATIONS == 3

\* chat_history[-10:]
CHAT_HISTORY_TURNS == 10

\* A plausible slip: one round more than max_iterations.
ChatRoundsLeftOneMore(iteration) == iteration <= CHAT_MAX_ITERATIONS

\* for iteration in range(max_iterations)
ChatRoundsLeft(iteration) == iteration < CHAT_MAX_ITERATIONS

\* re.sub(r'<tool_call>.*?</tool_call>', '', response, flags=re.DOTALL), from
\* position i on: every opening tag that has a closing tag after it is
\* removed together with everything up to the first such closing tag.
RECURSIVE RemoveXmlSpans(_, _)
RemoveXmlSpans(t, i) ==
    IF i > Len(t) THEN <<>>
    ELSE LET closes == { j \in (i + 1)..Len(t) : t[j] = "C" }
         IN  IF t[i] = "O" /\ closes # {}
             THEN RemoveXmlSpans(t, Min(closes) + 1)
             ELSE <<t[i]>> \o RemoveXmlSpans(t, i + 1)

\* re.sub(r'\[TOOL_CALL\].*?\)', '', clean_response), without re.DOTALL: the
\* dot stops at a line break, so a literal is removed only when a closing
\* parenthesis follows it on the same line.
RECURSIVE RemoveFuncSpans(_, _)
RemoveFuncSpans(t, i) ==
    IF i > Len(t) THEN <<>>
    ELSE LET stops == { j \in (i + 1)..Len(t) : t[j] \in {")", "nl"} }
         IN  IF t[i] = "T" /\ stops # {} /\ t[Min(stops)] = ")"
             THEN RemoveFuncSpans(t, Min(stops) + 1)
             ELSE <<t[i]>> \o RemoveFuncSpans(t, i + 1)

\* clean_response.strip() after the two substitutions
CleanResponse(response) ==
    Strip(RemoveFuncSpans(RemoveXmlSpans(response, 1), 1))

\* The text of the first return path.
ChatResponse(response) == CleanResponse(response)

\* final_response, the text of the second return path
ChatFinalResponse(final_response) == final_response

\* The for loop over the parsed calls in chat, from call k on: every call is
\* executed, there is no budget.  acc holds the tool_results so far, the
\* calls appended to tool_calls_made, and the exception that ended the loop.
RECURSIVE RunChatCalls(_, _, _, _)
RunChatCalls(calls, outs, k, acc) ==
    IF k > Len(calls) THEN acc
    ELSE IF "name" \notin calls[k].fields THEN [acc EXCEPT !.exc = "KeyError"]
    ELSE LET r == ExecuteTool(
                     calls[k].name,
                     IF "parameters" \in calls[k].fields
                     THEN calls[k].parameters ELSE NoParameters,
                     outs[k])
         IN  IF r.raised
             THEN [acc EXCEPT !.exc = "tool", !.executed = Append(@, calls[k])]
             ELSE RunChatCalls(calls, outs, k + 1,
                     [results  |-> Append(acc.results,
                                          [tool |-> calls[k].name, text |-> r.text]),
                      executed |-> Append(acc.executed, calls[k]),
                      made     |-> Append(acc.made, calls[k]),
                      exc      |-> ""])

\* A plausible slip: tool_calls left empty, as sources is.
ReturnedToolCallsNone(tool_calls_made) == <<>>

\* "tool_calls": tool_calls_made, in both return statements
ReturnedToolCalls(tool_calls_made) == tool_calls_made

\* ----------------------------------------------------------- _local_search

\* The texts of the search are sequences of words: the numbers from 1 on are
\* words of two characters or more, no one part of another, 0 is a word of
\* one character.  A query is split at blanks into its words.
IsKeyword(w) == w > 0

\* keywords = [w.strip() for w in query_lower...split() if len(w.strip()) > 1]
Keywords(query) == SelectSeq(query, IsKeyword)

\* query_lower in text_lower
Contains(text, query) ==
    \E i \in 0..(Len(text) - Len(query)) :
        SubSeq(text, i + 1, i + Len(query)) = query

\* match_score(text): 0 for an empty text, 100 for a text that holds the
\* whole query, otherwise 10 for every keyword of the list found in it.
MatchScore(text, query) ==
    IF text = <<>> THEN 0
    ELSE IF Contains(text, query) THEN 100
    ELSE 10 * Cardinality({ k \in DOMAIN Keywords(query) :
                                Keywords(query)[k] \in Range(text) })

\* The loop that scores the items: those of score 0 are left out.
RECURSIVE ScoredItems(_, _, _, _)
ScoredItems(items, first, second, query) ==
    IF items = <<>> THEN <<>>
    ELSE LET score == MatchScore(Head(items)[first], query)
                        + MatchScore(Head(items)[second], query)
         IN  (IF score > 0 THEN << [score |-> score, item |-> Head(items)] >>
              ELSE <<>>)
                \o ScoredItems(Tail(items), first, second, query)

\* list.sort(key=lambda x: x[0], reverse=True): a stable sort, so entries of
\* equal score keep their order.
RECURSIVE SortByScore(_, _)
SortByScore(done, scored) ==
    IF scored = <<>> THEN done
    ELSE LET x == Head(scored)
             k == Cardinality({ i \in 1..Len(done) : done[i].score >= x.score })
         IN  SortByScore(SubSeq(done, 1, k) \o <<x>> \o SubSeq(done, k + 1, Len(done)),
                         Tail(scored))

\* seq[:limit]; a negative limit counts from the end.
Slice(seq, limit) ==
    IF limit >= 0 THEN SubSeq(seq, 1, Min({limit, Len(seq)}))
    ELSE SubSeq(seq, 1, Max({0, Len(seq) + limit}))

\* The items kept for one scope, best first.
Ranked(items, first, second, query, limit) ==
    LET kept == Slice(SortByScore(<<>>, ScoredItems(items, first, second, query)), limit)
    IN  [k \in 1..Len(kept) |-> kept[k].item]

\* The facts the kept edges and nodes add: edge.fact when it is not empty,
\* "[name]: summary" when the summary is not empty.
RECURSIVE EdgeFacts(_)
EdgeFacts(edges) ==
    IF edges = <<>> THEN <<>>
    ELSE (IF Head(edges).fact # <<>>
          THEN << [of |-> "edge", name |-> <<>>, text |-> Head(edges).fact] >>
          ELSE <<>>) \o EdgeFacts(Tail(edges))

RECURSIVE NodeFacts(_)
NodeFacts(nodes) ==
    IF nodes = <<>> THEN <<>>
    ELSE (IF Head(nodes).summary # <<>>
          THEN << [of |-> "node", name |-> Head(nodes).name,
                   text |-> Head(nodes).summary] >>
          ELSE <<>>) \o NodeFacts(Tail(nodes))

SearchResult(facts, edges, nodes, query) ==
    [facts |-> facts, edges |-> edges, nodes |-> nodes, query |-> query,
     total_count |-> Len(facts)]

\* _local_search.  all_edges and all_nodes are what get_all_edges and
\* get_all_nodes do when called: ok is FALSE when the call raises.  An
\* exception ends the try block and keeps what was collected before it.
LocalSearch(query, all_edges, all_nodes, limit, scope) ==
    LET edges_wanted == scope \in {"edges", "both"}
        nodes_wanted == scope \in {"nodes", "both"}
        edges_result ==
            IF edges_wanted /\ all_edges.ok
            THEN Ranked(all_edges.items, "fact", "name", query, limit) ELSE <<>>
        nodes_reached == nodes_wanted /\ ~(edges_wanted /\ ~all_edges.ok)
        nodes_result ==
            IF nodes_reached /\ all_nodes.ok
            THEN Ranked(all_nodes.items, "name", "summary", query, limit) ELSE <<>>
    IN  SearchResult(EdgeFacts(edges_result) \o NodeFacts(nodes_result),
                     edges_result, nodes_result, query)

\* ------------------------------------------------------------ plan_outline

\* Titles are triples: <<"sec", i, 0>> and <<"sub", i, j>> are the titles the
\* model gave to section i and to its subsection j, <<"default", i, 0>> the
\* five titles of the default outline.
\* A content is <<"text", i, j>>, the text generated for section i (j = 0) or
\* for its subsection j, or empty.
EmptyContent == <<>>

ReportSection(title, content, subsections) ==
    [title |-> title, content |-> content, subsections |-> subsections]

ReportOutline(title, summary, sections) ==
    [title |-> title, summary |-> summary, sections |-> sections]

\* The structured object of the model whose section i has subs[i]
\* subsections.
ResponseOf(subs) ==
    [title |-> "model_title", summary |-> "model_summary",
     sections |->
        [i \in 1..Len(subs) |->
            [title |-> <<"sec", i, 0>>,
             subsections |-> [j \in 1..subs[i] |-> [title |-> <<"sub", i, j>>]]]]]

RECURSIVE SubCounts(_, _)
SubCounts(n, maxSub) ==
    IF n = 0 THEN { <<>> }
    ELSE LET shorter == SubCounts(n - 1, maxSub)
         IN  shorter \cup { Append(c, k) : c \in { d \in shorter : Len(d) = n - 1 },
                                             k \in 0..maxSub }

\* The shapes of the objects the planner is tried on: the loop over the
\* sections treats each section alone, so the sections with the most
\* subsections come first.
PlanShapes(n, maxSub) ==
    { c \in SubCounts(n, maxSub) : \A i \in 1..(Len(c) - 1) : c[i] >= c[i + 1] }

\* return ReportOutline(title="...", summary="...", sections=[five sections])
DefaultOutline ==
    ReportOutline("default_title", "default_summary",
        [i \in 1..5 |-> ReportSection(<<"default", i, 0>>, EmptyContent, <<>>)])

\* The loop over response.get("sections", []): every section and every
\* subsection of the object is taken over, in order.
ParseOutline(response) ==
    ReportOutline(response.title, response.summary,
        [i \in 1..Len(response.sections) |->
            ReportSection(
                response.sections[i].title, EmptyContent,
                [j \in 1..Len(response.sections[i].subsections) |->
                    ReportSection(response.sections[i].subsections[j].title, EmptyContent,
                                  <<>>)])])

\* The progress callback of plan_outline is given 0, 30, 80 and 100; cb_fail
\* is the number of the call that raises (0: none does, or no callback).
\* zep is what get_simulation_context does, llm what chat_json does: "raise"
\* or a structured object.  The result: the exception that leaves
\* plan_outline ("" when it returns), the outline, the percents passed on.
\* A plausible slip: the planner without its except clause.
OnPlannerFailurePropagates(percents) ==
    [exc |-> "llm", outline |-> DefaultOutline, percents |-> percents]

\* except Exception: the fixed outline is returned, whatever was raised
\* inside the try (by chat_json, by the parsing or by the callback).
OnPlannerFailure(percents) ==
    [exc |-> "", outline |-> DefaultOutline, percents |-> percents]

\* A plausible slip: the context fetch inside the try block of the planner.
OnContextFailureFallsBack(zep) == OnPlannerFailure(<<0>>)

\* get_simulation_context is called before the try block: what it raises
\* leaves plan_outline.
OnContextFailure(zep) ==
    [exc |-> zep, outline |-> DefaultOutline, percents |-> <<0>>]

PlanOutline(cb_fail, zep, llm) ==
    IF cb_fail = 1
    THEN [exc |-> "callback", outline |-> DefaultOutline, percents |-> <<0>>]
    ELSE IF zep # "ok"
    THEN OnContextFailure(zep)
    ELSE IF cb_fail = 2
    THEN [exc |-> "callback", outline |-> DefaultOutline, percents |-> <<0, 30>>]
    ELSE IF llm.kind = "raise"
    THEN OnPlannerFailure(<<0, 30>>)
    ELSE IF cb_fail = 3
    THEN OnPlannerFailure(<<0, 30, 80>>)
    ELSE IF cb_fail = 4
    THEN OnPlannerFailure(<<0, 30, 80, 100>>)
    ELSE [exc |-> "", outline |-> ParseOutline(llm.response),
          percents |-> <<0, 30, 80, 100>>]

LlmRaises == [kind |-> "raise", response |-> ResponseOf(<<>>)]

LlmReturns(response) == [kind |-> "object", response |-> response]

\* ------------------------------------------------------------ ReportManager

NoTitle == <<"none", 0, 0>>

\* A file is absent, empty (opened for writing and truncated, nothing
\* written yet) or full (written and closed); data is what it holds when full.
Absent(blank) == [state |-> "absent", data |-> blank]
Truncated(blank) == [state |-> "empty", data |-> blank]
Full(data) == [state |-> "full", data |-> data]

\* ReportSection.to_dict(): the title, the content and the dicts of the
\* subsections, to any depth
RECURSIVE SectionToDict(_)
SectionToDict(section) ==
    [title |-> section.title,
     content |-> section.content,
     subsections |-> [j \in 1..Len(section.subsections) |->
                        SectionToDict(section.subsections[j])]]

\* ReportOutline.to_dict()
OutlineToDict(outl) ==
    [title |-> outl.title,
     summary |-> outl.summary,
     sections |-> [i \in 1..Len(outl.sections) |-> SectionToDict(outl.sections[i])]]

NoOutline == ReportOutline("", "", <<>>)

\* A plausible slip: the sections are rebuilt from their titles alone.
OutlineFromDictTitlesOnly(data) ==
    ReportOutline(data.title, data.summary,
        [i \in 1..Len(data.sections) |->
            ReportSection(data.sections[i].title, EmptyContent,
                [j \in 1..Len(data.sections[i].subsections) |->
                    ReportSection(data.sections[i].subsections[j].title,
                                  EmptyContent, <<>>)])])

\* get_report's rebuilding of the outline: the sections and, one level
\* down, their subsections, each from its title and content
OutlineFromDict(data) ==
    ReportOutline(data.title, data.summary,
        [i \in 1..Len(data.sections) |->
            ReportSection(data.sections[i].title, data.sections[i].content,
                [j \in 1..Len(data.sections[i].subsections) |->
                    ReportSection(data.sections[i].subsections[j].title,
                                  data.sections[i].subsections[j].content, <<>>)])])

\* report.to_dict(), without the identifiers and the creation time
ReportDict(rep, outl) ==
    [status |-> rep.status,
     has_outline |-> rep.has_outline,
     outline |-> IF rep.has_outline THEN OutlineToDict(outl) ELSE NoOutline,
     markdown_content |-> rep.markdown_content,
     completed_at |-> rep.completed_at,
     error |-> rep.error]

\* assemble_full_report's text: the header, then the section records.  No
\* text is the empty string of markdown_content.
NoMarkdown == [title |-> "", summary |-> "", parts |-> <<>>]

\* progress_data, without the message and the time
ProgressData(status, progress, current_section, completed_sections) ==
    [status |-> status, progress |-> progress, current_section |-> current_section,
     completed_sections |-> completed_sections]

\* md_content of save_section: the heading and, when the content is not
\* empty, the content
SectionMarkdown(level, section) ==
    [level |-> level, title |-> section.title, content |-> section.content]

NoSection == [level |-> "", title |-> NoTitle, content |-> EmptyContent]

\* One step of the queue: a record write or a call of the caller's progress
\* callback.  file is "progress", "meta", "outline", "full" or "section";
\* key is <<i, j>> for section_i_j.md and <<i, 0>> for section_i.md.
WriteOp(file, key, data) ==
    [op |-> "write", file |-> file, key |-> key, data |-> data,
     stage |-> "", percent |-> 0]

CallbackOp(stage, percent) ==
    [op |-> "callback", file |-> "", key |-> <<0, 0>>, data |-> 0,
     stage |-> stage, percent |-> percent]

\* update_progress(report_id, status, progress, message, current_section,
\* completed_sections)
UpdateProgress(status, progress, current_section, completed_sections) ==
    << WriteOp("progress", <<0, 0>>,
               ProgressData(status, progress, current_section, completed_sections)) >>

\* save_outline(report_id, outline)
SaveOutline(outl) == << WriteOp("outline", <<0, 0>>, outl) >>

\* save_report(report): meta.json, then outline.json when there is an
\* outline, then full_report.md when markdown_content is not empty
SaveReport(rep, outl) ==
    << WriteOp("meta", <<0, 0>>, ReportDict(rep, outl)) >>
        \o (IF rep.has_outline THEN SaveOutline(outl) ELSE <<>>)
        \o (IF rep.markdown_content # NoMarkdown
            THEN << WriteOp("full", <<0, 0>>, rep.markdown_content) >> ELSE <<>>)

\* A plausible slip: the record of a section left for the final assembly.
SaveSectionNothing(key, section) == <<>>

\* save_section(report_id, section_index, section, is_subsection, parent_index)
\* A plausible slip: the record of a section is written a second time.
SaveSectionTwice(key, section) ==
    << WriteOp("section", key,
               SectionMarkdown(IF key[2] = 0 THEN "##" ELSE "###", section)),
       WriteOp("section", key,
               SectionMarkdown(IF key[2] = 0 THEN "##" ELSE "###", section)) >>

SaveSection(key, section) ==
    << WriteOp("section", key,
               SectionMarkdown(IF key[2] = 0 THEN "##" ELSE "###", section)) >>

\* ---- file names

\* The name of a file of the report folder: the stem before the first
\* underscore or dot, the indices of a section file (<<i, 0>> for
\* section_ii.md, <<i, j>> for section_ii_jj.md) and the extension.
SectionName(key) == [stem |-> "section", key |-> key, ext |-> "md"]

FullReportName == [stem |-> "full", key |-> <<0, 0>>, ext |-> "md"]

MetaName == [stem |-> "meta", key |-> <<0, 0>>, ext |-> "json"]

OutlineName == [stem |-> "outline", key |-> <<0, 0>>, ext |-> "json"]

ProgressName == [stem |-> "progress", key |-> <<0, 0>>, ext |-> "json"]

\* The decimal digits of n, as character codes
RECURSIVE Digits(_)
Digits(n) == IF n < 10 THEN << 48 + n >> ELSE Append(Digits(n \div 10), 48 + (n % 10))

\* f"{n:02d}": at least two digits
Pad2(n) == IF n < 10 THEN << 48 >> \o Digits(n) ELSE Digits(n)

\* The characters of a file name that decide its place in sorted(): the
\* first letter ("f", "m", "o", "p", "s"), and for a section file the
\* padded indices up to the dot (".": 46, "_": 95).
FileName(name) ==
    IF name.stem = "section"
    THEN << 115 >> \o Pad2(name.key[1])
         \o (IF name.key[2] = 0 THEN <<>> ELSE << 95 >> \o Pad2(name.key[2]))
         \o << 46 >>
    ELSE IF name.stem = "full" THEN << 102 >>
    ELSE IF name.stem = "meta" THEN << 109 >>
    ELSE IF name.stem = "outline" THEN << 111 >>
    ELSE << 112 >>

\* a < b for two strings
RECURSIVE StrLess(_, _)
StrLess(a, b) ==
    IF b = <<>> THEN FALSE
    ELSE IF a = <<>> THEN TRUE
    ELSE IF Head(a) # Head(b) THEN Head(a) < Head(b)
    ELSE StrLess(Tail(a), Tail(b))

\* sorted(os.listdir(folder)): the names in the order of their strings
RECURSIVE SortedNames(_)
SortedNames(S) ==
    IF S = {} THEN <<>>
    ELSE LET first == CHOOSE a \in S :
                        \A b \in S \ {a} : StrLess(FileName(a), FileName(b))
         IN  <<first>> \o SortedNames(S \ {first})

\* A plausible slip: every markdown file of the folder is taken for a
\* section file.
IsSectionFileAnyMarkdown(name) == name.ext = "md"

\* filename.startswith('section_') and filename.endswith('.md')
IsSectionFile(name) == name.stem = "section" /\ name.ext = "md"

\* A plausible slip: only the files of top-level sections are listed.
GetGeneratedSectionsTopLevel(dir) ==
    LET names == SortedNames({ n \in DOMAIN dir :
                                 /\ dir[n].state # "absent"
                                 /\ IsSectionFile(n)
                                 /\ n.key[2] = 0 })
    IN  [n \in 1..Len(names) |->
            [key |-> names[n].key, state |-> dir[names[n]].state,
             content |-> dir[names[n]].data]]

\* get_generated_sections: every section file of the folder, in the sorted
\* order of the names, with the indices parsed from its name and what it
\* holds
GetGeneratedSections(dir) ==
    LET names == SortedNames({ n \in DOMAIN dir :
                                 dir[n].state # "absent" /\ IsSectionFile(n) })
    IN  [n \in 1..Len(names) |->
            [key |-> names[n].key, state |-> dir[names[n]].state,
             content |-> dir[names[n]].data]]

\* md_content of assemble_full_report
AssembleFullReport(dir, outl) ==
    LET sections == GetGeneratedSections(dir)
    IN  [title |-> outl.title, summary |-> outl.summary,
         parts |-> [n \in 1..Len(sections) |-> sections[n].content]]

\* --------------------------------------------------------- generate_report

\* The positions from which a raised exception is swallowed: the inner try
\* of the except clause.
HandlerPcs == {"handler_save"}

\* A plausible slip: the except clause without its inner try.
AfterRaiseUnguarded(at) == IF at \in HandlerPcs THEN "propagated" ELSE "handler"

\* Where control goes when an exception is raised at position `at`: to the
\* except clause, or, inside it, past the inner try to the return.
AfterRaise(at) == IF at \in HandlerPcs THEN "return" ELSE "handler"

\* base_progress = 20 + int((i / total_sections) * 70), i counted from 0
BaseProgress(i0, total) == 20 + ((i0 * 70) \div total)

\* base_progress + int(prog * 0.7 / total_sections), where
\* prog = int((iteration / max_iterations) * 100)
RoundProgress(i0, total, it) ==
    BaseProgress(i0, total) + ((((it * 100) \div MaxIterations) * 7) \div (10 * total))

\* A plausible slip: the whole share of the generation added after a section.
DoneProgressWholeShare(i0, total) == BaseProgress(i0, total) + 70

\* base_progress + int(70 / total_sections)
DoneProgress(i0, total) == BaseProgress(i0, total) + (70 \div total)

\* base_progress + int(((j + 1) / len(section.subsections)) * 5), j from 0
SubProgress(i0, total, j0, n) == BaseProgress(i0, total) + (((j0 + 1) * 5) \div n)

\* "  └─ {subsection.title}"
SubLabel(title) == <<"label", title[2], title[3]>>

\* ---------------------------------------------- ZepToolsService, the retry

\* MAX_RETRIES and RETRY_DELAY (seconds) of ZepToolsService
ZEP_MAX_RETRIES == 3

RETRY_DELAY == 2

\* The largest max_retries a caller passes.
MaxRetriesArg == 4

\* max_retries = max_retries or self.MAX_RETRIES, where 0 stands for both
\* None and 0: the or takes either for "not given"
MaxRetriesOrDefault(max_retries) ==
    IF max_retries = 0 THEN ZEP_MAX_RETRIES ELSE max_retries

\* A plausible slip: the same delay before every attempt.
NextDelayConstant(delay) == delay

\* delay *= 2
NextDelay(delay) == delay * 2

\* What one call of func() did: it returned a value or raised an exception.
Returned(value) == [ok |-> TRUE, value |-> value]

Raised(e) == [ok |-> FALSE, value |-> e]

\* ------------------------------------------------------------- variables

VARIABLES
    \* the parser under test: its input, its result, its position
    p_response, p_tool_calls, p_origins, p_pc,
    \* the dispatcher under test: its arguments, what the collaborator does,
    \* its result, its position
    t_tool_name, t_parameters, t_outcome, t_result, t_pc,
    \* one call of _generate_section_react: its locals,
    messages, tool_calls_count, iteration,
    \* whether a progress callback was passed, and the percents it was given,
    has_callback, callbacks,
    \* where the call stands ("loop", "returned", "raised"), what it returned
    \* and the exception it raised,
    r_pc, r_result, r_exc,
    \* and what happened: the model calls made, every call executed, and, for
    \* the last round, the reply, the calls parsed from it, the calls executed
    \* and tool_calls_count at its start
    llm_calls, executed, last_response, round_calls, round_executed, round_before,
    \* the planner under test: which callback call raises, what the
    \* collaborator and the model do, its result, its position
    o_cb_fail, o_zep, o_llm, o_result, o_pc,
    \* one run of generate_report: the Report object and the outline it
    \* shares with the locals, the other locals, and the caller's callback
    \* (TRUE when one was passed),
    report, outline, completed_section_titles, generated_sections, md_content,
    sec_i, sub_j, round, progress_callback,
    \* where the run stands, the steps of the current statement still to be
    \* made, whether the file of the first of them is open, the exception that
    \* reached the except clause and whether a later one was swallowed there,
    g_pc, todo, w_open, g_exc, swallowed,
    \* the last call of the caller's callback, the last status written to
    \* meta.json and the last status and percentage written to progress.json,
    cb_last, meta_status, progress_written,
    \* what the run has done so far: what the planner's context fetch did,
    \* how often the content of each section and subsection was assigned and
    \* how often its record was opened for writing,
    g_history,
    \* and the report folder: meta.json, outline.json, progress.json,
    \* full_report.md and the section files
    folder_exists, meta_file, outline_file, progress_file, full_report_file,
    section_files,
    \* the records of the same report id in the old flat layout
    \* (reports/{id}.json and reports/{id}.md), and the calls made on
    \* ReportManager from outside a run: how many, the last one and the one
    \* before it, each with its argument and what it returned
    legacy_json, legacy_md, m_steps, m_last, m_prev,
    \* one call of list_reports: the reports directory, the arguments, the
    \* order in which os.listdir hands out the items, and the result
    l_dir, l_simulation_id, l_limit, l_reversed, l_result, l_pc,
    \* one call of chat: the number of turns of the history passed in, its
    \* locals, where it stands ("loop", "returned", "raised"), the dictionary
    \* it returned, the return statement it left by ("no_call", "final"), the
    \* exception it raised, and what happened: the model calls made, the
    \* calls executed, the last reply and the calls executed before it
    c_history, c_messages, c_iteration, c_tool_calls_made, c_pc, c_result,
    c_path, c_exc, c_llm_calls, c_executed, c_last_response, c_before,
    \* one call of _local_search: its arguments, what the listing of the
    \* edges and of the nodes gives, its result, its position
    s_query, s_limit, s_scope, s_all_edges, s_all_nodes, s_result, s_pc,
    \* one ZepGraphMemoryUpdater: _running, the state of _worker_thread
    \* ("none", "alive", "dead"), _activity_queue, and the three counters,
    u_running, u_thread, u_queue, u_total_activities, u_total_sent, u_failed_count,
    \* its threads: the producers calling add_activity, the background
    \* consumer and the caller of stop(), each with its position, the
    \* activity in hand, the attempt of the send and the value it has read of
    \* the counter it is about to write,
    producers, worker, stopper,
    \* and what happened: the calls of add_activity made, the activities put
    \* on the queue, the activities the graph received, in order, the
    \* activities whose send has ended, and the activities accepted when
    \* stop() was called
    u_calls, u_put, u_graph, u_done, u_before_stop,
    \* one call of _call_with_retry: the max_retries passed (0 when none),
    \* its locals, where it stands ("call", "sleep", "returned", "raised"),
    \* what it returned and the exception it raised, and what happened: what
    \* each call of func() did and the delays slept, in order
    rt_max_retries, rt_attempt, rt_delay, rt_last_exception, rt_pc, rt_result,
    rt_exc, rt_history, rt_sleeps,
    \* ZepGraphMemoryManager: _updaters as the set of its (simulation id,
    \* updater) items, the thread that holds _lock ("" when free), the threads
    \* calling the manager, each with the call it is in and its locals, the
    \* number of updaters constructed so far and the updaters stop() was
    \* called on
    zm_updaters, zm_lock, zm_callers, zm_created, zm_stop_called

parseVars == <<p_response, p_tool_calls, p_origins, p_pc>>

toolVars == <<t_tool_name, t_parameters, t_outcome, t_result, t_pc>>

reactVars ==
    <<messages, tool_calls_count, iteration, has_callback, callbacks, r_pc,
      r_result, r_exc, llm_calls, executed, last_response, round_calls,
      round_executed, round_before>>

planVars == <<o_cb_fail, o_zep, o_llm, o_result, o_pc>>

genVars ==
    <<report, outline, completed_section_titles, generated_sections, md_content,
      sec_i, sub_j, round, progress_callback, g_pc, todo, w_open, g_exc,
      swallowed, cb_last, meta_status, progress_written, g_history>>

Files == <<meta_file, outline_file, progress_file, full_report_file, section_files>>

storeVars == <<folder_exists, Files>>

mgrVars == <<legacy_json, legacy_md, m_steps, m_last, m_prev>>

listVars == <<l_dir, l_simulation_id, l_limit, l_reversed, l_result, l_pc>>

chatVars ==
    <<c_history, c_messages, c_iteration, c_tool_calls_made, c_pc, c_result,
      c_path, c_exc, c_llm_calls, c_executed, c_last_response, c_before>>

\* The variables of the operations modelled after the pipeline and its store.
searchVars == <<s_query, s_limit, s_scope, s_all_edges, s_all_nodes, s_result, s_pc>>

updVars ==
    <<u_running, u_thread, u_queue, u_total_activities, u_total_sent,
      u_failed_count, producers, worker, stopper, u_calls, u_put, u_graph,
      u_done, u_before_stop>>

retryVars ==
    <<rt_max_retries, rt_attempt, rt_delay, rt_last_exception, rt_pc, rt_result,
      rt_exc, rt_history, rt_sleeps>>

zmVars == <<zm_updaters, zm_lock, zm_callers, zm_created, zm_stop_called>>

lateVars == <<retryVars, zmVars>>

restVars == <<chatVars, searchVars, updVars, lateVars>>

vars == <<parseVars, toolVars, reactVars, planVars, genVars, storeVars, mgrVars,
          listVars, restVars>>

\* ------------------------------------------------------------ the parser

ParseInit ==
    /\ p_response \in Texts
    /\ p_tool_calls = <<>>
    /\ p_origins = <<>>
    /\ p_pc = "ready"

ParseIdle ==
    /\ p_response = <<>>
    /\ p_tool_calls = <<>>
    /\ p_origins = <<>>
    /\ p_pc = "idle"

ParseCall ==
    /\ p_pc = "ready"
    /\ p_tool_calls' = ParseToolCalls(p_response)
    /\ p_origins' = ParseOrigins(p_response)
    /\ p_pc' = "returned"
    /\ UNCHANGED p_response

\* ---------------------------------------------------------- the dispatcher

ParameterValues ==
    { NoParameters,
      [is_mapping |-> TRUE, items |-> {<<"query", "alpha">>}],
      [is_mapping |-> FALSE, items |-> {}] }

NoResult == [raised |-> FALSE, text |-> [kind |-> "none", detail |-> ""],
             zep_called |-> FALSE]

ToolInit ==
    /\ t_tool_name \in ToolNames \cup {"no_such_tool", ""}
    /\ t_parameters \in ParameterValues
    /\ t_outcome \in ZepOutcomes
    /\ t_result = NoResult
    /\ t_pc = "ready"

ToolIdle ==
    /\ t_tool_name = ""
    /\ t_parameters = NoParameters
    /\ t_outcome = "ok"
    /\ t_result = NoResult
    /\ t_pc = "idle"

ToolCallAction ==
    /\ t_pc = "ready"
    /\ t_result' = ExecuteTool(t_tool_name, t_parameters, t_outcome)
    /\ t_pc' = IF t_result'.raised THEN "raised" ELSE "returned"
    /\ UNCHANGED <<t_tool_name, t_parameters, t_outcome>>

\* ------------------------------------------------------ the section loop

\* The replies the model gives in the checked runs.
ReactReplies ==
    { <<"Hello">>,
      <<"FA", "s", "Hello", "s", "world">>,
      <<"T", "get_graph_statistics", "(", ")", "s",
        "O", "{", "n1", "p", "}", "C", "O", "{", "n2", "}", "C">>,
      <<"O", "{", "n1", "p", "}", "C", "FA", "Hello", "FA", "s", "world", "s">>,
      <<"O", "{", "n1", "}", "C", "O", "{", "p", "}", "C">> }

\* What the collaborator does in the checked runs, round by round.
ReactOutcomes == {"ok", "raise_api"}

ReactInit ==
    /\ messages = << Message("system", "system", <<>>, <<>>),
                     Message("user", "task", <<>>, <<>>) >>
    /\ tool_calls_count = 0
    /\ iteration = 0
    /\ has_callback \in BOOLEAN
    /\ callbacks = <<>>
    /\ r_pc = "loop"
    /\ r_result = <<>>
    /\ r_exc = ""
    /\ llm_calls = 0
    /\ executed = <<>>
    /\ last_response = <<>>
    /\ round_calls = <<>>
    /\ round_executed = <<>>
    /\ round_before = 0

ReactIdle ==
    /\ messages = <<>>
    /\ tool_calls_count = 0
    /\ iteration = 0
    /\ has_callback = FALSE
    /\ callbacks = <<>>
    /\ r_pc = "idle"
    /\ r_result = <<>>
    /\ r_exc = ""
    /\ llm_calls = 0
    /\ executed = <<>>
    /\ last_response = <<>>
    /\ round_calls = <<>>
    /\ round_executed = <<>>
    /\ round_before = 0

\* progress_callback("generating", int((iteration / max_iterations) * 100), ...)
RoundCallback ==
    callbacks' = IF has_callback
                 THEN Append(callbacks, (iteration * 100) \div MaxIterations)
                 ELSE callbacks

\* The start of a round of the for loop, up to the model's reply.
RoundReply(response) ==
    /\ r_pc = "loop"
    /\ iteration < MaxIterations
    /\ RoundCallback
    /\ llm_calls' = llm_calls + 1
    /\ last_response' = response
    /\ round_before' = tool_calls_count

\* A round whose progress callback raises.
ReactCallbackRaises ==
    /\ r_pc = "loop"
    /\ iteration < MaxIterations
    /\ has_callback
    /\ RoundCallback
    /\ r_pc' = "raised"
    /\ r_exc' = "callback"
    /\ UNCHANGED <<messages, tool_calls_count, iteration, has_callback, r_result,
                   llm_calls, executed, last_response, round_calls,
                   round_executed, round_before>>

\* A round, or the forced last call, whose self.llm.chat raises.
ReactLlmRaises ==
    /\ r_pc = "loop"
    /\ IF iteration < MaxIterations
       THEN /\ RoundCallback
            /\ UNCHANGED messages
       ELSE /\ UNCHANGED callbacks
            /\ messages' = Append(messages, Message("user", "stop", <<>>, <<>>))
    /\ llm_calls' = llm_calls + 1
    /\ r_pc' = "raised"
    /\ r_exc' = "llm"
    /\ UNCHANGED <<tool_calls_count, iteration, has_callback, r_result, executed,
                   last_response, round_calls, round_executed, round_before>>

\* A round whose reply holds the marker: the text after it is returned.
ReactFinal ==
    \E response \in ReactReplies :
        /\ RoundReply(response)
        /\ HasMarker(response)
        /\ r_result' = FinalAnswer(response)
        /\ r_pc' = "returned"
        /\ round_calls' = <<>>
        /\ round_executed' = <<>>
        /\ UNCHANGED <<messages, tool_calls_count, iteration, has_callback, r_exc,
                       executed>>

\* A round whose reply holds neither the marker nor a call.
ReactNoCalls ==
    \E response \in ReactReplies :
        /\ RoundReply(response)
        /\ ~HasMarker(response)
        /\ ParseToolCalls(response) = <<>>
        /\ messages' = messages \o NoCallMessages(response)
        /\ iteration' = iteration + 1
        /\ round_calls' = <<>>
        /\ round_executed' = <<>>
        /\ UNCHANGED <<tool_calls_count, has_callback, r_pc, r_result, r_exc,
                       executed>>

\* A round whose reply holds calls: they are executed while the budget
\* lasts, and the results are appended as an observation; a call without a
\* name ends the function with KeyError.
ReactTools ==
    \E response \in ReactReplies :
        /\ RoundReply(response)
        /\ ~HasMarker(response)
        /\ ParseToolCalls(response) # <<>>
        /\ LET tool_calls == ParseToolCalls(response)
           IN  \E outcome \in ReactOutcomes :
                LET outs == [k \in 1..Len(tool_calls) |-> outcome]
                    run == RunToolCalls(tool_calls, outs, 1,
                               [results |-> <<>>, executed |-> <<>>,
                                count |-> tool_calls_count, exc |-> ""])
                IN  /\ round_calls' = tool_calls
                    /\ round_executed' = run.executed
                    /\ executed' = executed \o run.executed
                    /\ tool_calls_count' = run.count
                    /\ IF run.exc # ""
                       THEN /\ r_pc' = "raised"
                            /\ r_exc' = run.exc
                            /\ UNCHANGED <<messages, iteration>>
                       ELSE /\ messages' = messages
                                    \o ObservationMessages(response, run.results)
                            /\ iteration' = iteration + 1
                            /\ UNCHANGED <<r_pc, r_exc>>
                    /\ UNCHANGED <<has_callback, r_result>>

\* After the last round: one more model call, whose text is returned as it
\* is, or from its marker on.
ReactForced ==
    \E response \in ReactReplies :
        /\ r_pc = "loop"
        /\ iteration = MaxIterations
        /\ messages' = Append(messages, Message("user", "stop", <<>>, <<>>))
        /\ llm_calls' = llm_calls + 1
        /\ last_response' = response
        /\ round_before' = tool_calls_count
        /\ round_calls' = <<>>
        /\ round_executed' = <<>>
        /\ r_result' = ForcedResult(response)
        /\ r_pc' = "returned"
        /\ UNCHANGED <<tool_calls_count, iteration, has_callback, callbacks, r_exc,
                       executed>>

\* ------------------------------------------------------------ the planner

PlanInit ==
    /\ o_cb_fail \in 0..4
    /\ o_zep \in {"ok", "raise_api"}
    /\ o_llm \in {LlmRaises}
            \cup { LlmReturns(ResponseOf(c)) :
                      c \in PlanShapes(MaxPlanSections, MaxPlanSubsections) }
    /\ o_result = [exc |-> "", outline |-> DefaultOutline, percents |-> <<>>]
    /\ o_pc = "ready"

PlanIdle ==
    /\ o_cb_fail = 0
    /\ o_zep = "ok"
    /\ o_llm = LlmRaises
    /\ o_result = [exc |-> "", outline |-> DefaultOutline, percents |-> <<>>]
    /\ o_pc = "idle"

PlanCall ==
    /\ o_pc = "ready"
    /\ o_result' = PlanOutline(o_cb_fail, o_zep, o_llm)
    /\ o_pc' = IF o_result'.exc # "" THEN "raised" ELSE "returned"
    /\ UNCHANGED <<o_cb_fail, o_zep, o_llm>>

\* ------------------------------------------------------- the orchestrator

\* The section files written by direct calls of save_section: indices of
\* one, two and three digits.
StoreKeys == { <<1, 0>>, <<1, 1>>, <<10, 0>>, <<99, 0>>, <<100, 0>> }

\* The section files a run can write, those of the planner's outline and
\* those of the five sections of the default outline, and the files of
\* StoreKeys.
SectionKeys ==
    { <<i, j>> : i \in 1..Max({MaxSections, Len(DefaultOutline.sections)}),
                 j \in 0..MaxSubsections }
        \cup StoreKeys

\* The report folder as os.listdir and open see it
Folder ==
    [n \in { SectionName(k) : k \in SectionKeys }
             \cup {FullReportName, MetaName, OutlineName, ProgressName} |->
        IF n.stem = "section" THEN section_files[n.key]
        ELSE IF n = FullReportName THEN full_report_file
        ELSE IF n = MetaName THEN meta_file
        ELSE IF n = OutlineName THEN outline_file
        ELSE progress_file]

\* Report(status=PENDING, ...): no outline, no text, no error
NewReport ==
    [status |-> "pending", has_outline |-> FALSE, markdown_content |-> NoMarkdown,
     completed_at |-> FALSE, error |-> ""]

NoProgress == ProgressData("", 0, NoTitle, <<>>)

NoMeta == ReportDict(NewReport, NoOutline)

\* What a reader gets from a JSON record (get_progress, get_report): None
\* when the file is not there, the record when it is whole, and a
\* JSONDecodeError out of json.load when it is empty.
JsonLoad(file) ==
    IF file.state = "absent" THEN [seen |-> "none", data |-> file.data]
    ELSE IF file.state = "empty" THEN [seen |-> "JSONDecodeError", data |-> file.data]
    ELSE [seen |-> "record", data |-> file.data]

GetProgress == JsonLoad(progress_file)

GetReport == JsonLoad(meta_file)

\* What get_generated_sections hands back for each file: f.read() of an
\* empty file is the empty text.
SectionsSeen ==
    LET sections == GetGeneratedSections(Folder)
    IN  [n \in 1..Len(sections) |->
            IF sections[n].state = "empty" THEN "empty text" ELSE "record"]

StoreInit ==
    /\ folder_exists = FALSE
    /\ meta_file = Absent(NoMeta)
    /\ outline_file = Absent(NoOutline)
    /\ progress_file = Absent(NoProgress)
    /\ full_report_file = Absent(NoMarkdown)
    /\ section_files = [k \in SectionKeys |-> Absent(NoSection)]

GenLocalsInit ==
    /\ report = NewReport
    /\ outline = NoOutline
    /\ completed_section_titles = <<>>
    /\ generated_sections = <<>>
    /\ md_content = NoMarkdown
    /\ sec_i = 0
    /\ sub_j = 0
    /\ round = 0
    /\ todo = <<>>
    /\ w_open = FALSE
    /\ g_exc = ""
    /\ swallowed = FALSE
    /\ cb_last = [stage |-> "", percent |-> 0]
    /\ meta_status = ""
    /\ progress_written = [status |-> "", progress |-> 0]
    /\ g_history = [context_fetch |-> "",
                    assigned |-> [k \in SectionKeys |-> 0],
                    opened |-> [k \in SectionKeys |-> 0]]

GenInit ==
    /\ GenLocalsInit
    /\ progress_callback \in BOOLEAN
    /\ g_pc = "start"
    /\ StoreInit

GenIdle ==
    /\ GenLocalsInit
    /\ progress_callback = FALSE
    /\ g_pc = "idle"
    /\ StoreInit

\* progress_callback(...) if progress_callback else nothing
Callback(stage, percent) ==
    IF progress_callback THEN << CallbackOp(stage, percent) >> ELSE <<>>

\* An exception raised where the run stands.
Raise(e) ==
    /\ g_pc' = AfterRaise(g_pc)
    /\ todo' = <<>>
    /\ w_open' = FALSE
    /\ IF g_pc \in HandlerPcs
       THEN swallowed' = TRUE /\ UNCHANGED g_exc
       ELSE g_exc' = e /\ UNCHANGED swallowed

\* What every statement of the run leaves alone unless it says otherwise.
Locals == <<outline, completed_section_titles, generated_sections, md_content,
            sec_i, sub_j, round>>

Ghosts == <<cb_last, meta_status, progress_written, g_history, g_exc, swallowed, progress_callback, w_open>>

\* ---- the steps of a statement: record writes and callback calls

\* open(path, 'w'): the file is there and empty
StoreOpen ==
    /\ todo # <<>>
    /\ Head(todo).op = "write"
    /\ ~w_open
    /\ w_open' = TRUE
    /\ folder_exists' = TRUE
    /\ LET w == Head(todo)
       IN  /\ meta_file' = IF w.file = "meta"
                            THEN Truncated(NoMeta) ELSE meta_file
           /\ outline_file' = IF w.file = "outline"
                               THEN Truncated(NoOutline) ELSE outline_file
           /\ progress_file' = IF w.file = "progress"
                                THEN Truncated(NoProgress) ELSE progress_file
           /\ full_report_file' = IF w.file = "full"
                                   THEN Truncated(NoMarkdown)
                                   ELSE full_report_file
           /\ section_files' = IF w.file = "section"
                                THEN [section_files EXCEPT
                                        ![w.key] = Truncated(NoSection)]
                                ELSE section_files
    /\ g_history' = IF Head(todo).file = "section"
                    THEN [g_history EXCEPT !.opened[Head(todo).key] = @ + 1]
                    ELSE g_history
    /\ UNCHANGED <<report, Locals, g_pc, todo, cb_last, meta_status, progress_written, g_exc,
                   swallowed, progress_callback>>

\* json.dump / f.write and the close: the file holds the record
StoreWrite ==
    /\ todo # <<>>
    /\ Head(todo).op = "write"
    /\ w_open
    /\ w_open' = FALSE
    /\ todo' = Tail(todo)
    /\ UNCHANGED folder_exists
    /\ LET w == Head(todo)
       IN  /\ meta_file' = IF w.file = "meta" THEN Full(w.data) ELSE meta_file
           /\ meta_status' = IF w.file = "meta" THEN w.data.status ELSE meta_status
           /\ outline_file' = IF w.file = "outline" THEN Full(w.data) ELSE outline_file
           /\ progress_file' = IF w.file = "progress" THEN Full(w.data)
                                ELSE progress_file
           /\ progress_written' = IF w.file = "progress"
                                   THEN [status |-> w.data.status,
                                         progress |-> w.data.progress]
                                   ELSE progress_written
           /\ full_report_file' = IF w.file = "full" THEN Full(w.data)
                                   ELSE full_report_file
           /\ section_files' = IF w.file = "section"
                                THEN [section_files EXCEPT ![w.key] = Full(w.data)]
                                ELSE section_files
    /\ UNCHANGED <<report, Locals, g_pc, cb_last, g_exc, swallowed,
                   progress_callback, g_history>>

\* os.makedirs or open raises: nothing is written
StoreOpenFails ==
    /\ todo # <<>>
    /\ Head(todo).op = "write"
    /\ ~w_open
    /\ Raise("store")
    /\ UNCHANGED <<report, Locals, cb_last, meta_status, progress_written, g_history, progress_callback, storeVars>>

\* the write raises after the file was truncated
StoreWriteFails ==
    /\ todo # <<>>
    /\ Head(todo).op = "write"
    /\ w_open
    /\ Raise("store")
    /\ UNCHANGED <<report, Locals, cb_last, meta_status, progress_written, g_history, progress_callback, storeVars>>

\* the caller's callback returns
CallbackReturns ==
    /\ todo # <<>>
    /\ Head(todo).op = "callback"
    /\ cb_last' = [stage |-> Head(todo).stage, percent |-> Head(todo).percent]
    /\ todo' = Tail(todo)
    /\ UNCHANGED <<report, Locals, g_pc, w_open, meta_status, progress_written, g_history, g_exc, swallowed,
                   progress_callback, storeVars>>

\* the caller's callback raises
CallbackRaises ==
    /\ todo # <<>>
    /\ Head(todo).op = "callback"
    /\ cb_last' = [stage |-> Head(todo).stage, percent |-> Head(todo).percent]
    /\ Raise("callback")
    /\ UNCHANGED <<report, Locals, meta_status, progress_written, g_history, progress_callback, storeVars>>

\* ---- the statements of generate_report

\* _ensure_report_folder raises
GenEnsureFolderFails ==
    /\ g_pc = "start"
    /\ todo = <<>>
    /\ Raise("store")
    /\ UNCHANGED <<report, Locals, cb_last, meta_status, progress_written, g_history, progress_callback, storeVars>>

\* _ensure_report_folder; update_progress("pending", 0); save_report(report)
GenStart ==
    /\ g_pc = "start"
    /\ todo = <<>>
    /\ todo' = UpdateProgress("pending", 0, NoTitle, <<>>) \o SaveReport(report, outline)
    /\ g_pc' = "planning"
    /\ folder_exists' = TRUE
    /\ UNCHANGED <<report, Locals, Ghosts, Files>>

\* report.status = PLANNING; update_progress("planning", 5); the callback
GenPlanning ==
    /\ g_pc = "planning"
    /\ todo = <<>>
    /\ report' = [report EXCEPT !.status = "planning"]
    /\ todo' = UpdateProgress("planning", 5, NoTitle, <<>>) \o Callback("planning", 0)
    /\ g_pc' = "plan_outline"
    /\ UNCHANGED <<Locals, Ghosts, storeVars>>

\* outline = self.plan_outline(...); report.outline = outline;
\* save_outline; update_progress("planning", 15); save_report(report).
\* The callback plan_outline is given passes on prog // 5.
GenPlanOutline ==
    /\ g_pc = "plan_outline"
    /\ todo = <<>>
    /\ \E cb_fail \in (IF progress_callback THEN 0..4 ELSE {0}),
          zep \in {"ok", "raise_api"},
          llm \in {LlmRaises}
                 \cup { LlmReturns(ResponseOf(c)) :
                           c \in SubCounts(MaxSections, MaxSubsections) } :
        LET r == PlanOutline(cb_fail, zep, llm)
            last == r.percents[Len(r.percents)] \div 5
        IN  /\ cb_last' = IF progress_callback
                          THEN [stage |-> "planning", percent |-> last]
                          ELSE cb_last
            /\ g_history' = [g_history EXCEPT
                                !.context_fetch = IF cb_fail = 1 THEN "not_reached"
                                                  ELSE zep]
            /\ IF r.exc # ""
               THEN /\ Raise(r.exc)
                    /\ UNCHANGED <<report, outline>>
               ELSE /\ outline' = r.outline
                    /\ report' = [report EXCEPT !.has_outline = TRUE]
                    /\ todo' = SaveOutline(r.outline)
                                \o UpdateProgress("planning", 15, NoTitle, <<>>)
                                \o SaveReport(report', r.outline)
                    /\ g_pc' = "generating"
                    /\ UNCHANGED <<g_exc, swallowed, w_open>>
    /\ UNCHANGED <<completed_section_titles, generated_sections, md_content,
                   sec_i, sub_j, round, meta_status, progress_written, progress_callback, storeVars>>

\* report.status = GENERATING; total_sections = len(outline.sections)
GenGenerating ==
    /\ g_pc = "generating"
    /\ todo = <<>>
    /\ report' = [report EXCEPT !.status = "generating"]
    /\ sec_i' = 1
    /\ sub_j' = 0
    /\ g_pc' = IF Len(outline.sections) = 0 THEN "assemble" ELSE "section_begin"
    /\ UNCHANGED <<outline, completed_section_titles, generated_sections,
                   md_content, round, todo, Ghosts, storeVars>>

Total == Len(outline.sections)

\* the head of the section loop: update_progress(base_progress) and the
\* callback, before the section is generated
GenSectionBegin ==
    /\ g_pc = "section_begin"
    /\ todo = <<>>
    /\ todo' = UpdateProgress("generating", BaseProgress(sec_i - 1, Total),
                               outline.sections[sec_i].title,
                               completed_section_titles)
                \o Callback("generating", BaseProgress(sec_i - 1, Total))
    /\ round' = 0
    /\ g_pc' = "react"
    /\ UNCHANGED <<report, outline, completed_section_titles, generated_sections,
                   md_content, sec_i, sub_j, Ghosts, storeVars>>

\* The callback a round of _generate_section_react calls: only a section
\* (not a subsection) is given one, and the forced last call makes none.
RoundCalls == progress_callback /\ sub_j = 0 /\ round < MaxIterations

RoundCallbackDone ==
    cb_last' = IF RoundCalls
               THEN [stage |-> "generating",
                     percent |-> RoundProgress(sec_i - 1, Total, round)]
               ELSE cb_last

\* a round of _generate_section_react whose callback raises
GenReactCallbackRaises ==
    /\ g_pc = "react"
    /\ todo = <<>>
    /\ RoundCalls
    /\ RoundCallbackDone
    /\ Raise("round_callback")
    /\ UNCHANGED <<report, Locals, meta_status, progress_written, g_history, progress_callback, storeVars>>

\* a round of _generate_section_react that neither returns nor raises
GenReactContinue ==
    /\ g_pc = "react"
    /\ todo = <<>>
    /\ round < MaxIterations
    /\ RoundCallbackDone
    /\ round' = round + 1
    /\ UNCHANGED <<report, outline, completed_section_titles, generated_sections,
                   md_content, sec_i, sub_j, g_pc, todo, w_open, meta_status, progress_written, g_history,
                   g_exc, swallowed, progress_callback, storeVars>>

\* a round, or the forced last call, in which the model call raises, or a
\* round in which a parsed call has no name
GenReactRaises ==
    /\ g_pc = "react"
    /\ todo = <<>>
    /\ RoundCallbackDone
    /\ \E e \in {"llm"} \cup (IF round < MaxIterations THEN {"KeyError"} ELSE {}) :
          Raise(e)
    /\ UNCHANGED <<report, Locals, meta_status, progress_written, g_history, progress_callback, storeVars>>

\* _generate_section_react returns: the content is set, appended to
\* generated_sections, and the section is saved at once
GenReactReturn ==
    /\ g_pc = "react"
    /\ todo = <<>>
    /\ RoundCallbackDone
    /\ g_history' = [g_history EXCEPT !.assigned[<<sec_i, sub_j>>] = @ + 1]
    /\ LET content == <<"text", sec_i, sub_j>>
       IN  IF sub_j = 0
           THEN /\ outline' = [outline EXCEPT !.sections[sec_i].content = content]
                /\ generated_sections' =
                      Append(generated_sections,
                             SectionMarkdown("##", outline'.sections[sec_i]))
                /\ todo' = SaveSection(<<sec_i, 0>>, outline'.sections[sec_i])
                /\ g_pc' = "section_done"
           ELSE /\ outline' = [outline EXCEPT
                                 !.sections[sec_i].subsections[sub_j].content = content]
                /\ generated_sections' =
                      Append(generated_sections,
                             SectionMarkdown("###",
                                 outline'.sections[sec_i].subsections[sub_j]))
                /\ todo' = SaveSection(<<sec_i, sub_j>>,
                                       outline'.sections[sec_i].subsections[sub_j])
                /\ g_pc' = "sub_done"
    /\ UNCHANGED <<report, completed_section_titles, md_content, sec_i, sub_j,
                   round, w_open, meta_status, progress_written, g_exc, swallowed, progress_callback,
                   storeVars>>

\* A plausible slip: the loop over the sections without the inner loop over
\* section.subsections.
NextUnitSkipsSubsections(j0) ==
    IF sec_i < Len(outline.sections)
    THEN [pc |-> "section_begin", i |-> sec_i + 1, j |-> 0]
    ELSE [pc |-> "assemble", i |-> sec_i, j |-> 0]

\* Where the loops go on after subsection j0 of the current section (j0 = 0:
\* after the section itself).
NextUnit(j0) ==
    IF j0 < Len(outline.sections[sec_i].subsections)
    THEN [pc |-> "sub_begin", i |-> sec_i, j |-> j0 + 1]
    ELSE IF sec_i < Total
    THEN [pc |-> "section_begin", i |-> sec_i + 1, j |-> 0]
    ELSE [pc |-> "assemble", i |-> sec_i, j |-> 0]

\* completed_section_titles.append(section.title); update_progress
GenSectionDone ==
    /\ g_pc = "section_done"
    /\ todo = <<>>
    /\ completed_section_titles' =
          Append(completed_section_titles, outline.sections[sec_i].title)
    /\ todo' = UpdateProgress("generating", DoneProgress(sec_i - 1, Total), NoTitle,
                               completed_section_titles')
    /\ g_pc' = NextUnit(0).pc
    /\ sec_i' = NextUnit(0).i
    /\ sub_j' = NextUnit(0).j
    /\ UNCHANGED <<report, outline, generated_sections, md_content, round, Ghosts,
                   storeVars>>

\* the head of the subsection loop: the callback and update_progress
GenSubBegin ==
    /\ g_pc = "sub_begin"
    /\ todo = <<>>
    /\ LET n == Len(outline.sections[sec_i].subsections)
           p == SubProgress(sec_i - 1, Total, sub_j - 1, n)
       IN  todo' = Callback("generating", p)
                   \o UpdateProgress("generating", p,
                                     outline.sections[sec_i].subsections[sub_j].title,
                                     completed_section_titles)
    /\ round' = 0
    /\ g_pc' = "react"
    /\ UNCHANGED <<report, outline, completed_section_titles, generated_sections,
                   md_content, sec_i, sub_j, Ghosts, storeVars>>

\* completed_section_titles.append("  └─ " + subsection.title)
GenSubDone ==
    /\ g_pc = "sub_done"
    /\ todo = <<>>
    /\ completed_section_titles' =
          Append(completed_section_titles,
                 SubLabel(outline.sections[sec_i].subsections[sub_j].title))
    /\ g_pc' = NextUnit(sub_j).pc
    /\ sec_i' = NextUnit(sub_j).i
    /\ sub_j' = NextUnit(sub_j).j
    /\ UNCHANGED <<report, outline, generated_sections, md_content, round, todo,
                   Ghosts, storeVars>>

\* the callback and update_progress("generating", 95) before the assembly
GenAssembleBegin ==
    /\ g_pc = "assemble"
    /\ todo = <<>>
    /\ todo' = Callback("generating", 95)
                \o UpdateProgress("generating", 95, NoTitle, completed_section_titles)
    /\ g_pc' = "assemble_full"
    /\ UNCHANGED <<report, Locals, Ghosts, storeVars>>

\* assemble_full_report(report_id, outline): reads the section files, writes
\* full_report.md
GenAssemble ==
    /\ g_pc = "assemble_full"
    /\ todo = <<>>
    /\ md_content' = AssembleFullReport(Folder, outline)
    /\ todo' = << WriteOp("full", <<0, 0>>, md_content') >>
    /\ g_pc' = "complete"
    /\ UNCHANGED <<report, outline, completed_section_titles, generated_sections,
                   sec_i, sub_j, round, Ghosts, storeVars>>

\* report.markdown_content = ...; report.status = COMPLETED; completed_at;
\* save_report; update_progress("completed", 100); the callback
GenComplete ==
    /\ g_pc = "complete"
    /\ todo = <<>>
    /\ report' = [report EXCEPT !.markdown_content = md_content,
                                !.status = "completed",
                                !.completed_at = TRUE]
    /\ todo' = SaveReport(report', outline)
                \o UpdateProgress("completed", 100, NoTitle, completed_section_titles)
                \o Callback("completed", 100)
    /\ g_pc' = "return"
    /\ UNCHANGED <<Locals, Ghosts, storeVars>>

\* except Exception as e: report.status = FAILED; report.error = str(e);
\* try: save_report; update_progress("failed", -1)
GenHandler ==
    /\ g_pc = "handler"
    /\ report' = [report EXCEPT !.status = "failed", !.error = g_exc]
    /\ todo' = SaveReport(report', outline)
                \o UpdateProgress("failed", -1, NoTitle, completed_section_titles)
    /\ g_pc' = "handler_save"
    /\ UNCHANGED <<Locals, Ghosts, storeVars>>

\* return report
GenReturn ==
    /\ g_pc \in {"return", "handler_save"}
    /\ todo = <<>>
    /\ g_pc' = "returned"
    /\ UNCHANGED <<report, Locals, todo, Ghosts, storeVars>>

\* ------------------------------------------- ReportManager, called directly

\* A call not yet made
NoCall == [op |-> "", arg |-> [kind |-> "none"], out |-> [kind |-> "none"]]

MgrIdle ==
    /\ legacy_json = Absent(NoMeta)
    /\ legacy_md = Absent(NoMarkdown)
    /\ m_steps = 0
    /\ m_last = NoCall
    /\ m_prev = NoCall

\* The outlines and reports the calls are made with: an outline of two
\* levels, one of three, and a report without outline.
TwoLevels ==
    ReportOutline("title_two", "summary_two",
        << ReportSection(<<"sec", 1, 0>>, <<"text", 1, 0>>,
               << ReportSection(<<"sub", 1, 1>>, <<"text", 1, 1>>, <<>>) >>),
           ReportSection(<<"sec", 2, 0>>, EmptyContent, <<>>) >>)

ThreeLevels ==
    ReportOutline("title_three", "summary_three",
        << ReportSection(<<"sec", 1, 0>>, <<"text", 1, 0>>,
               << ReportSection(<<"sub", 1, 1>>, <<"text", 1, 1>>,
                      << ReportSection(<<"subsub", 1, 1>>, <<"text", 1, 1>>,
                                       <<>>) >>) >>) >>)

SomeMarkdown == [title |-> "title_two", summary |-> "summary_two", parts |-> <<>>]

CompletedReport ==
    [status |-> "completed", has_outline |-> TRUE, markdown_content |-> SomeMarkdown,
     completed_at |-> TRUE, error |-> ""]

FailedReport ==
    [status |-> "failed", has_outline |-> TRUE, markdown_content |-> NoMarkdown,
     completed_at |-> FALSE, error |-> "boom"]

StoreReports ==
    { [rep |-> NewReport, outl |-> NoOutline],
      [rep |-> CompletedReport, outl |-> TwoLevels],
      [rep |-> FailedReport, outl |-> ThreeLevels] }

\* The store before the calls: no folder; the old flat records there or not.
MgrInit ==
    /\ legacy_json \in {Absent(NoMeta), Full(ReportDict(CompletedReport, TwoLevels))}
    /\ legacy_md \in {Absent(NoMarkdown), Full(SomeMarkdown)}
    /\ m_steps = 0
    /\ m_last = NoCall
    /\ m_prev = NoCall

\* The call is recorded.
Called(op, arg, out) ==
    /\ m_steps < MaxOps
    /\ m_steps' = m_steps + 1
    /\ m_prev' = m_last
    /\ m_last' = [op |-> op, arg |-> arg, out |-> out]

\* The file after the writes ops: what the last write to it left
Written(ops, file, old) ==
    LET at == { n \in 1..Len(ops) : ops[n].op = "write" /\ ops[n].file = file }
    IN  IF at = {} THEN old ELSE Full(ops[Max(at)].data)

\* save_section(report_id, i, section) or save_section(report_id, j,
\* section, is_subsection=True, parent_index=i)
MgrSaveSection ==
    \E k \in StoreKeys :
        LET section == ReportSection(<<"sec", k[1], k[2]>>, <<"text", k[1], k[2]>>, <<>>)
            ops == SaveSection(k, section)
        IN  /\ Called("save_section", [kind |-> "key", key |-> k], [kind |-> "path"])
            /\ folder_exists' = TRUE
            /\ section_files' = [section_files EXCEPT ![k] = Full(ops[1].data)]
            /\ UNCHANGED <<meta_file, outline_file, progress_file, full_report_file,
                           legacy_json, legacy_md>>

\* assemble_full_report(report_id, outline): without the folder the open of
\* full_report.md raises
MgrAssemble ==
    \E outl \in {TwoLevels, ThreeLevels} :
        LET md == AssembleFullReport(Folder, outl)
        IN  IF folder_exists
            THEN /\ Called("assemble", [kind |-> "outline", outline |-> outl],
                           [kind |-> "text", value |-> md])
                 /\ full_report_file' = Full(md)
                 /\ UNCHANGED <<folder_exists, meta_file, outline_file, progress_file,
                                section_files, legacy_json, legacy_md>>
            ELSE /\ Called("assemble", [kind |-> "outline", outline |-> outl],
                           [kind |-> "FileNotFoundError"])
                 /\ UNCHANGED <<storeVars, legacy_json, legacy_md>>

\* save_report(report)
MgrSaveReport ==
    \E r \in StoreReports :
        LET ops == SaveReport(r.rep, r.outl)
        IN  /\ Called("save_report", [kind |-> "report", report |-> r], [kind |-> "none"])
            /\ folder_exists' = TRUE
            /\ meta_file' = Written(ops, "meta", meta_file)
            /\ outline_file' = Written(ops, "outline", outline_file)
            /\ full_report_file' = Written(ops, "full", full_report_file)
            /\ UNCHANGED <<progress_file, section_files, legacy_json, legacy_md>>

\* get_report(report_id): meta.json of the folder, else the old
\* {report_id}.json, else None; the outline is rebuilt, and an empty
\* markdown_content is filled from full_report.md when that is there
GetReportOf(meta, old_json, full_md) ==
    IF meta.state = "absent" /\ old_json.state = "absent"
    THEN [kind |-> "none"]
    ELSE LET data == IF meta.state # "absent" THEN meta.data ELSE old_json.data
         IN  [kind |-> "report",
              value |->
                [status |-> data.status,
                 has_outline |-> data.has_outline,
                 outline |-> IF data.has_outline THEN OutlineFromDict(data.outline)
                             ELSE NoOutline,
                 markdown_content |->
                    IF data.markdown_content # NoMarkdown THEN data.markdown_content
                    ELSE IF full_md.state # "absent" THEN full_md.data
                    ELSE NoMarkdown,
                 completed_at |-> data.completed_at,
                 error |-> data.error]]

MgrGetReport ==
    /\ Called("get_report", [kind |-> "none"],
              GetReportOf(meta_file, legacy_json, full_report_file))
    /\ UNCHANGED <<storeVars, legacy_json, legacy_md>>

\* Some record of the report id is stored, in the folder or flat.
RecordExists ==
    \/ folder_exists
    \/ legacy_json.state # "absent"
    \/ legacy_md.state # "absent"

\* delete_report(report_id): the folder is removed and True returned;
\* only when there is no folder are the old flat files removed
MgrDeleteReport ==
    IF folder_exists
    THEN /\ Called("delete_report", [kind |-> "existed", existed |-> RecordExists],
                   [kind |-> "bool", value |-> TRUE])
         /\ folder_exists' = FALSE
         /\ meta_file' = Absent(NoMeta)
         /\ outline_file' = Absent(NoOutline)
         /\ progress_file' = Absent(NoProgress)
         /\ full_report_file' = Absent(NoMarkdown)
         /\ section_files' = [k \in SectionKeys |-> Absent(NoSection)]
         /\ UNCHANGED <<legacy_json, legacy_md>>
    ELSE /\ Called("delete_report", [kind |-> "existed", existed |-> RecordExists],
                   [kind |-> "bool",
                    value |-> legacy_json.state # "absent" \/ legacy_md.state # "absent"])
         /\ legacy_json' = Absent(NoMeta)
         /\ legacy_md' = Absent(NoMarkdown)
         /\ UNCHANGED storeVars

\* ------------------------------------------------------------ list_reports

ReportIds == 1..MaxReports

SimulationIds == {"sim_a", "sim_b"}

CreationTimes == {"2024-01-01", "2024-01-02"}

\* s < t for two creation times (ISO strings)
TimeLess(s, t) == s = "2024-01-01" /\ t = "2024-01-02"

NoRecord == [kind |-> "none", simulation_id |-> "", created_at |-> ""]

\* meta.json or {id}.json, as far as list_reports looks at it
Records ==
    { [kind |-> "report", simulation_id |-> sim, created_at |-> t] :
        sim \in SimulationIds, t \in CreationTimes }

\* What the reports directory holds for one id: no folder, a folder without
\* meta.json or a folder with it, and the old {id}.json or not.
Entries ==
    [folder : BOOLEAN, meta : Records \cup {NoRecord}, old_json : Records \cup {NoRecord}]

\* get_report(report_id) on an entry: meta.json of the folder, else the old
\* {id}.json, else None
GetReportIn(entry, id) ==
    IF entry.folder /\ entry.meta # NoRecord
    THEN [report_id |-> id, simulation_id |-> entry.meta.simulation_id,
          created_at |-> entry.meta.created_at, found |-> TRUE]
    ELSE IF entry.old_json # NoRecord
    THEN [report_id |-> id, simulation_id |-> entry.old_json.simulation_id,
          created_at |-> entry.old_json.created_at, found |-> TRUE]
    ELSE [report_id |-> id, simulation_id |-> "", created_at |-> "", found |-> FALSE]

\* os.listdir(REPORTS_DIR): for each id its folder and its {id}.json, those
\* that are there; the ids ascending or descending.
RECURSIVE ListDirFrom(_, _, _)
ListDirFrom(dir, id, reversed) ==
    IF id \notin DOMAIN dir THEN <<>>
    ELSE LET items == (IF dir[id].folder THEN << [id |-> id, kind |-> "dir"] >> ELSE <<>>)
                      \o (IF dir[id].old_json # NoRecord
                          THEN << [id |-> id, kind |-> "json"] >> ELSE <<>>)
             rest  == ListDirFrom(dir, id + 1, reversed)
         IN  IF reversed THEN rest \o items ELSE items \o rest

\* The loop of list_reports: every item that is a folder or ends in .json
\* is looked up with get_report and kept if it is found and passes the filter
RECURSIVE Collect(_, _, _)
Collect(dir, items, simulation_id) ==
    IF items = <<>> THEN <<>>
    ELSE LET found_report == GetReportIn(dir[Head(items).id], Head(items).id)
             keep   == /\ found_report.found
                       /\ (simulation_id = "None" \/ found_report.simulation_id = simulation_id)
         IN  (IF keep THEN <<found_report>> ELSE <<>>)
             \o Collect(dir, Tail(items), simulation_id)

\* reports.sort(key=lambda r: r.created_at, reverse=True): a stable sort,
\* the later creation times first
RECURSIVE InsertByTime(_, _)
InsertByTime(sorted, found_report) ==
    IF sorted = <<>> THEN <<found_report>>
    ELSE IF TimeLess(Head(sorted).created_at, found_report.created_at)
    THEN <<found_report>> \o sorted
    ELSE <<Head(sorted)>> \o InsertByTime(Tail(sorted), found_report)

RECURSIVE SortByTime(_, _)
SortByTime(done, reports) ==
    IF reports = <<>> THEN done
    ELSE SortByTime(InsertByTime(done, Head(reports)), Tail(reports))

\* list_reports(simulation_id, limit)
ListReports(dir, reversed, simulation_id, limit) ==
    LET reports == SortByTime(<<>>, Collect(dir, ListDirFrom(dir, 1, reversed),
                                            simulation_id))
    IN  SubSeq(reports, 1, Min({limit, Len(reports)}))

ListInit ==
    /\ l_dir \in [ReportIds -> { e \in Entries : e.meta # NoRecord => e.folder }]
    /\ l_simulation_id \in SimulationIds \cup {"None"}
    /\ l_limit \in 0..(MaxReports + 1)
    /\ l_reversed \in BOOLEAN
    /\ l_result = <<>>
    /\ l_pc = "ready"

ListIdle ==
    /\ l_dir = [id \in ReportIds |->
                  [folder |-> FALSE, meta |-> NoRecord, old_json |-> NoRecord]]
    /\ l_simulation_id = "None"
    /\ l_limit = 0
    /\ l_reversed = FALSE
    /\ l_result = <<>>
    /\ l_pc = "idle"

ListCall ==
    /\ l_pc = "ready"
    /\ l_result' = ListReports(l_dir, l_reversed, l_simulation_id, l_limit)
    /\ l_pc' = "returned"
    /\ UNCHANGED <<l_dir, l_simulation_id, l_limit, l_reversed>>

\* ------------------------------------------------------------------ chat

\* The replies the model gives in the checked conversations.
\* A plausible slip: the round recorded in the progress record of the report.
ChatWritesProgress(tool_calls) ==
    UpdateProgress("generating", 0, NoTitle, <<>>)

\* The records of the report folder a round of chat writes after it has
\* executed tool_calls: none, no statement of chat or of the tools it
\* dispatches to calls ReportManager or opens a file.
ChatWrites(tool_calls) == <<>>

\* The report folder after the writes ops.
StoreAfter(ops) ==
    /\ folder_exists' = (folder_exists \/ ops # <<>>)
    /\ meta_file' = Written(ops, "meta", meta_file)
    /\ outline_file' = Written(ops, "outline", outline_file)
    /\ progress_file' = Written(ops, "progress", progress_file)
    /\ full_report_file' = Written(ops, "full", full_report_file)
    /\ section_files' = section_files

\* The folder of a report generated earlier: its records are there.
PersistedReport ==
    /\ folder_exists = TRUE
    /\ meta_file = Full(ReportDict(CompletedReport, TwoLevels))
    /\ outline_file = Full(TwoLevels)
    /\ progress_file = Full(ProgressData("completed", 100, NoTitle,
                                         << <<"sec", 1, 0>>, <<"sec", 2, 0>> >>))
    /\ full_report_file = Full(SomeMarkdown)
    /\ section_files =
          [k \in SectionKeys |->
              IF k = <<1, 0>>
              THEN Full(SectionMarkdown("##", TwoLevels.sections[1]))
              ELSE Absent(NoSection)]

ChatReplies ==
    { <<"Hello", "s", "world">>,
      <<"O", "{", "n1", "p", "}", "C">>,
      <<"O", "{", "p", "}", "C">>,
      <<"s", "O", "{", "x", "}", "C", "s", "Hello">>,
      <<"T", "nl", "O", "x", "C", "search_graph", "(", "kq", ")">>,
      <<"T", "search_graph", "(", "kq", ")", "s", "Hello">> }

\* The numbers of turns of the histories passed in.
ChatHistories == {0, CHAT_HISTORY_TURNS + 1}

NoChatResult == [response |-> <<>>, tool_calls |-> <<>>, sources |-> <<>>]

\* messages = [system] + chat_history[-10:] + [user message]
ChatInit ==
    /\ c_history \in ChatHistories
    /\ c_messages =
          << Message("system", "system", <<>>, <<>>) >>
          \o [k \in 1..Min({c_history, CHAT_HISTORY_TURNS}) |->
                 Message("user", "history", <<>>, <<>>)]
          \o << Message("user", "task", <<>>, <<>>) >>
    /\ c_iteration = 0
    /\ c_tool_calls_made = <<>>
    /\ c_pc = "loop"
    /\ c_result = NoChatResult
    /\ c_path = ""
    /\ c_exc = ""
    /\ c_llm_calls = 0
    /\ c_executed = <<>>
    /\ c_last_response = <<>>
    /\ c_before = 0

ChatIdle ==
    /\ c_history = 0
    /\ c_messages = <<>>
    /\ c_iteration = 0
    /\ c_tool_calls_made = <<>>
    /\ c_pc = "idle"
    /\ c_result = NoChatResult
    /\ c_path = ""
    /\ c_exc = ""
    /\ c_llm_calls = 0
    /\ c_executed = <<>>
    /\ c_last_response = <<>>
    /\ c_before = 0

\* self.llm.chat(...) returns response: a round of the loop or the call
\* after it.
ChatReply(response) ==
    /\ c_pc = "loop"
    /\ c_llm_calls' = c_llm_calls + 1
    /\ c_last_response' = response
    /\ c_before' = Len(c_executed)

\* A model call that raises, in a round or after the loop.
ChatLlmRaises ==
    /\ c_pc = "loop"
    /\ c_llm_calls' = c_llm_calls + 1
    /\ c_pc' = "raised"
    /\ c_exc' = "llm"
    /\ UNCHANGED <<c_history, c_messages, c_iteration, c_tool_calls_made,
                   c_result, c_path, c_executed, c_last_response, c_before>>

\* A round whose reply holds no call: the cleaned reply is returned.
ChatNoCalls ==
    \E response \in ChatReplies :
        /\ ChatReply(response)
        /\ ChatRoundsLeft(c_iteration)
        /\ ParseToolCalls(response) = <<>>
        /\ c_result' = [response |-> ChatResponse(response),
                        tool_calls |-> ReturnedToolCalls(c_tool_calls_made), sources |-> <<>>]
        /\ c_pc' = "returned"
        /\ c_path' = "no_call"
        /\ UNCHANGED <<c_history, c_messages, c_iteration, c_tool_calls_made,
                       c_exc, c_executed>>

\* A round whose reply holds calls: all of them are executed and the results
\* are appended as one message; a call without a name ends the function
\* with KeyError.
ChatTools ==
    \E response \in ChatReplies, outcome \in ReactOutcomes :
        /\ ChatReply(response)
        /\ ChatRoundsLeft(c_iteration)
        /\ ParseToolCalls(response) # <<>>
        /\ LET tool_calls == ParseToolCalls(response)
               outs == [k \in 1..Len(tool_calls) |-> outcome]
               run == RunChatCalls(tool_calls, outs, 1,
                          [results |-> <<>>, executed |-> <<>>, made |-> <<>>,
                           exc |-> ""])
           IN  /\ c_tool_calls_made' = c_tool_calls_made \o run.made
               /\ c_executed' = c_executed \o run.executed
               /\ IF run.exc # ""
                  THEN /\ c_pc' = "raised"
                       /\ c_exc' = run.exc
                       /\ UNCHANGED <<c_messages, c_iteration>>
                  ELSE /\ c_messages' = c_messages
                               \o << Message("assistant", "reply", response, <<>>),
                                     Message("user", "observation", <<>>,
                                             run.results) >>
                       /\ c_iteration' = c_iteration + 1
                       /\ UNCHANGED <<c_pc, c_exc>>
        /\ UNCHANGED <<c_history, c_result, c_path>>

\* After the last round: one more model call, whose text is returned.
ChatFinal ==
    \E final_response \in ChatReplies :
        /\ ChatReply(final_response)
        /\ ~ChatRoundsLeft(c_iteration)
        /\ c_result' = [response |-> ChatFinalResponse(final_response),
                        tool_calls |-> ReturnedToolCalls(c_tool_calls_made), sources |-> <<>>]
        /\ c_pc' = "returned"
        /\ c_path' = "final"
        /\ UNCHANGED <<c_history, c_messages, c_iteration, c_tool_calls_made,
                       c_exc, c_executed>>

\* ---------------------------------------------------------- local search

\* The query of n keywords, and its words in the opposite order.
QueryOf(n) == [k \in 1..n |-> k]

Reverse(t) == [k \in 1..Len(t) |-> t[Len(t) + 1 - k]]

\* The queries searched for; the last begins with a word of one character.
Queries == { QueryOf(n) : n \in 1..MaxKeywords } \cup { <<0, 1>> }

\* The texts an edge or a node holds: none, the query, its words in another
\* order, its first keyword alone.
FieldTexts(query) == { <<>>, query, Reverse(query), << Keywords(query)[1] >> }

EdgeInfo(uuid, fact, name) == [uuid |-> uuid, fact |-> fact, name |-> name]

NodeInfo(uuid, name, summary) == [uuid |-> uuid, name |-> name, summary |-> summary]

\* The edges of the graph, in the order in which they are listed.
EdgeLists(query) ==
    UNION { [1..n -> { EdgeInfo(0, f, nm) : f \in FieldTexts(query),
                                             nm \in FieldTexts(query) }] :
              n \in 0..MaxEdges }

NodeLists(query) ==
    { <<>> } \cup { << NodeInfo(1, nm, sm) >> :
                       nm \in {query, Reverse(query)}, sm \in {<<>>, query} }

Limits == {1, 2}

Scopes == {"edges", "nodes", "both"}

Listing(ok, items) == [ok |-> ok, items |-> items]

NoSearchResult == SearchResult(<<>>, <<>>, <<>>, <<>>)

SearchInit ==
    /\ s_query \in Queries
    /\ s_limit \in Limits
    /\ s_scope \in Scopes
    /\ s_all_edges \in
          { Listing(FALSE, <<>>) }
          \cup { Listing(TRUE, [k \in DOMAIN l |-> [l[k] EXCEPT !.uuid = k]]) :
                   l \in EdgeLists(s_query) }
    /\ s_all_nodes \in
          { Listing(FALSE, <<>>) }
          \cup { Listing(TRUE, l) : l \in NodeLists(s_query) }
    /\ s_result = NoSearchResult
    /\ s_pc = "ready"

SearchIdle ==
    /\ s_query = <<>>
    /\ s_limit = 0
    /\ s_scope = ""
    /\ s_all_edges = Listing(TRUE, <<>>)
    /\ s_all_nodes = Listing(TRUE, <<>>)
    /\ s_result = NoSearchResult
    /\ s_pc = "idle"

SearchCall ==
    /\ s_pc = "ready"
    /\ s_result' = LocalSearch(s_query, s_all_edges, s_all_nodes, s_limit, s_scope)
    /\ s_pc' = "returned"
    /\ UNCHANGED <<s_query, s_limit, s_scope, s_all_edges, s_all_nodes>>

\* --------------------------------------------------- ZepGraphMemoryUpdater

\* ZepGraphMemoryUpdater.MAX_RETRIES
UPDATER_MAX_RETRIES == 3

Producers == {"p1", "p2"}

\* A thread: where it stands, the activity it holds (0 for none), the
\* attempts of the current send that failed, and its copy of the counter it
\* increments.
Thread(pc, item, attempt, reg) ==
    [pc |-> pc, item |-> item, attempt |-> attempt, reg |-> reg]

UpdaterCounters == <<u_total_activities, u_total_sent, u_failed_count>>

UpdaterGhosts == <<u_calls, u_put, u_graph, u_done, u_before_stop>>

\* After __init__: nothing is running and nothing is queued.
UpdaterInit ==
    /\ u_running = FALSE
    /\ u_thread = "none"
    /\ u_queue = <<>>
    /\ u_total_activities = 0
    /\ u_total_sent = 0
    /\ u_failed_count = 0
    /\ producers = [p \in Producers |-> Thread("idle", 0, 0, 0)]
    /\ worker = Thread("none", 0, 0, 0)
    /\ stopper = Thread("idle", 0, 0, 0)
    /\ u_calls = 0
    /\ u_put = 0
    /\ u_graph = <<>>
    /\ u_done = {}
    /\ u_before_stop = {}

UpdaterIdle ==
    /\ u_running = FALSE
    /\ u_thread = "none"
    /\ u_queue = <<>>
    /\ u_total_activities = 0
    /\ u_total_sent = 0
    /\ u_failed_count = 0
    /\ producers = [p \in Producers |-> Thread("off", 0, 0, 0)]
    /\ worker = Thread("off", 0, 0, 0)
    /\ stopper = Thread("off", 0, 0, 0)
    /\ u_calls = 0
    /\ u_put = 0
    /\ u_graph = <<>>
    /\ u_done = {}
    /\ u_before_stop = {}

\* start(): nothing when _running is set, otherwise the consumer is started.
UpdaterStart ==
    /\ stopper.pc = "idle"
    /\ ~u_running
    /\ u_thread = "none"
    /\ u_running' = TRUE
    /\ u_thread' = "alive"
    /\ worker' = Thread("test", 0, 0, 0)
    /\ UNCHANGED <<u_queue, UpdaterCounters, producers, stopper, UpdaterGhosts>>

\* add_activity with a DO_NOTHING activity returns at once.
AddDoNothing(p) ==
    /\ producers[p].pc = "idle"
    /\ u_calls < MaxActivities
    /\ u_calls' = u_calls + 1
    /\ UNCHANGED <<u_running, u_thread, u_queue, UpdaterCounters, producers,
                   worker, stopper, u_put, u_graph, u_done, u_before_stop>>

\* self._activity_queue.put(activity)
AddPut(p) ==
    /\ producers[p].pc = "idle"
    /\ u_calls < MaxActivities
    /\ u_calls' = u_calls + 1
    /\ u_put' = u_put + 1
    /\ u_queue' = Append(u_queue, u_put + 1)
    /\ producers' = [producers EXCEPT ![p] = Thread("load", u_put + 1, 0, 0)]
    /\ UNCHANGED <<u_running, u_thread, UpdaterCounters, worker, stopper,
                   u_graph, u_done, u_before_stop>>

\* self._total_activities += 1 is a read followed by a write.
AddLoad(p) ==
    /\ producers[p].pc = "load"
    /\ producers' = [producers EXCEPT ![p].pc = "store", ![p].reg = u_total_activities]
    /\ UNCHANGED <<u_running, u_thread, u_queue, UpdaterCounters, worker,
                   stopper, UpdaterGhosts>>

AddStore(p) ==
    /\ producers[p].pc = "store"
    /\ u_total_activities' = producers[p].reg + 1
    /\ producers' = [producers EXCEPT ![p] = Thread("idle", 0, 0, 0)]
    /\ UNCHANGED <<u_running, u_thread, u_queue, u_total_sent, u_failed_count,
                   worker, stopper, UpdaterGhosts>>

\* _send_single_activity, run by thread th, which goes on at `back` when the
\* send has ended; th2 is the thread after the step.
\* self.client.graph.add(...) returns.
SendAccepted(th, th2) ==
    /\ th.pc = "send"
    /\ u_graph' = Append(u_graph, th.item)
    /\ th2 = [th EXCEPT !.pc = "sent_load"]
    /\ UNCHANGED <<UpdaterCounters, u_done>>

\* self.client.graph.add(...) raises: another attempt after a pause, or the
\* last one.
SendRefused(th, th2) ==
    /\ th.pc = "send"
    /\ th2 = IF th.attempt < UPDATER_MAX_RETRIES - 1
             THEN [th EXCEPT !.attempt = th.attempt + 1]
             ELSE [th EXCEPT !.pc = "failed_load"]
    /\ UNCHANGED <<UpdaterCounters, u_graph, u_done>>

\* self._total_sent += 1 and self._failed_count += 1: the read
SendLoad(th, th2) ==
    /\ th.pc \in {"sent_load", "failed_load"}
    /\ th2 = IF th.pc = "sent_load"
             THEN [th EXCEPT !.pc = "sent_store", !.reg = u_total_sent]
             ELSE [th EXCEPT !.pc = "failed_store", !.reg = u_failed_count]
    /\ UNCHANGED <<UpdaterCounters, u_graph, u_done>>

\* and the write, after which the send returns.
SendStore(th, th2, back) ==
    /\ th.pc \in {"sent_store", "failed_store"}
    /\ IF th.pc = "sent_store"
       THEN u_total_sent' = th.reg + 1 /\ UNCHANGED u_failed_count
       ELSE u_failed_count' = th.reg + 1 /\ UNCHANGED u_total_sent
    /\ u_done' = u_done \cup {th.item}
    /\ th2 = Thread(back, 0, 0, 0)
    /\ UNCHANGED <<u_total_activities, u_graph>>

SendSingleActivity(th, th2, back) ==
    \/ SendAccepted(th, th2)
    \/ SendRefused(th, th2)
    \/ SendLoad(th, th2)
    \/ SendStore(th, th2, back)

\* while self._running or not self._activity_queue.empty()
WorkerTest ==
    /\ worker.pc = "test"
    /\ IF u_running \/ u_queue # <<>>
       THEN worker' = [worker EXCEPT !.pc = "get"] /\ UNCHANGED u_thread
       ELSE worker' = [worker EXCEPT !.pc = "done"] /\ u_thread' = "dead"
    /\ UNCHANGED <<u_running, u_queue, UpdaterCounters, producers, stopper,
                   UpdaterGhosts>>

\* self._activity_queue.get(timeout=1): an activity, or Empty after a second
WorkerGet ==
    /\ worker.pc = "get"
    /\ IF u_queue # <<>>
       THEN /\ worker' = Thread("send", Head(u_queue), 0, 0)
            /\ u_queue' = Tail(u_queue)
       ELSE /\ worker' = [worker EXCEPT !.pc = "test"]
            /\ UNCHANGED u_queue
    /\ UNCHANGED <<u_running, u_thread, UpdaterCounters, producers, stopper,
                   UpdaterGhosts>>

\* self._send_single_activity(activity); time.sleep(self.SEND_INTERVAL)
WorkerSend ==
    /\ SendSingleActivity(worker, worker', "test")
    /\ UNCHANGED <<u_running, u_thread, u_queue, producers, stopper, u_calls,
                   u_put, u_before_stop>>

\* stop(): self._running = False
StopBegin ==
    /\ stopper.pc = "idle"
    /\ u_running' = FALSE
    /\ stopper' = [stopper EXCEPT !.pc = "flush_test"]
    /\ u_before_stop' = 1..u_put
    /\ UNCHANGED <<u_thread, u_queue, UpdaterCounters, producers, worker,
                   u_calls, u_put, u_graph, u_done>>

\* _flush_remaining: while not self._activity_queue.empty()
FlushTest ==
    /\ stopper.pc = "flush_test"
    /\ stopper' = [stopper EXCEPT !.pc = IF u_queue # <<>> THEN "flush_get" ELSE "join"]
    /\ UNCHANGED <<u_running, u_thread, u_queue, UpdaterCounters, producers,
                   worker, UpdaterGhosts>>

\* get_nowait(): an activity, or Empty, which leaves the loop
FlushGet ==
    /\ stopper.pc = "flush_get"
    /\ IF u_queue # <<>>
       THEN /\ stopper' = Thread("send", Head(u_queue), 0, 0)
            /\ u_queue' = Tail(u_queue)
       ELSE /\ stopper' = [stopper EXCEPT !.pc = "join"]
            /\ UNCHANGED u_queue
    /\ UNCHANGED <<u_running, u_thread, UpdaterCounters, producers, worker,
                   UpdaterGhosts>>

FlushSend ==
    /\ SendSingleActivity(stopper, stopper', "flush_test")
    /\ UNCHANGED <<u_running, u_thread, u_queue, producers, worker, u_calls,
                   u_put, u_before_stop>>

\* self._worker_thread.join(timeout=10) gives up while the thread is alive.
JoinGivesUp == u_thread = "alive"

\* if self._worker_thread and self._worker_thread.is_alive(): join(timeout=10);
\* then stop() returns.
StopReturn ==
    /\ stopper.pc = "join"
    /\ u_thread # "alive" \/ JoinGivesUp
    /\ stopper' = [stopper EXCEPT !.pc = "returned"]
    /\ UNCHANGED <<u_running, u_thread, u_queue, UpdaterCounters, producers,
                   worker, UpdaterGhosts>>

\* ------------------------------------------------- _call_with_retry alone

NoException == <<"exc", 0, "">>

NoValue == <<"result", 0>>

RetryLocalsInit ==
    /\ rt_attempt = 0
    /\ rt_delay = RETRY_DELAY
    /\ rt_last_exception = NoException
    /\ rt_result = NoValue
    /\ rt_exc = NoException
    /\ rt_history = <<>>
    /\ rt_sleeps = <<>>

RetryInit ==
    /\ rt_max_retries \in 0..MaxRetriesArg
    /\ rt_pc = "call"
    /\ RetryLocalsInit

RetryIdle ==
    /\ rt_max_retries = 0
    /\ rt_pc = "idle"
    /\ RetryLocalsInit

\* try: return func()
RetryCallReturns ==
    /\ rt_pc = "call"
    /\ rt_history' = Append(rt_history, Returned(<<"result", rt_attempt + 1>>))
    /\ rt_result' = <<"result", rt_attempt + 1>>
    /\ rt_pc' = "returned"
    /\ UNCHANGED <<rt_max_retries, rt_attempt, rt_delay, rt_last_exception, rt_exc,
                   rt_sleeps>>

\* except Exception as e: last_exception = e; on the last attempt the loop
\* ends and raise last_exception is reached
RetryCallRaises ==
    /\ rt_pc = "call"
    /\ \E kind \in {"timeout", "api"} :
          LET e == <<"exc", rt_attempt + 1, kind>>
          IN  /\ rt_history' = Append(rt_history, Raised(e))
              /\ rt_last_exception' = e
              /\ IF rt_attempt < MaxRetriesOrDefault(rt_max_retries) - 1
                 THEN rt_pc' = "sleep" /\ UNCHANGED rt_exc
                 ELSE rt_pc' = "raised" /\ rt_exc' = e
    /\ UNCHANGED <<rt_max_retries, rt_attempt, rt_delay, rt_result, rt_sleeps>>

\* time.sleep(delay); delay *= 2; the next attempt
RetrySleep ==
    /\ rt_pc = "sleep"
    /\ rt_sleeps' = Append(rt_sleeps, rt_delay)
    /\ rt_delay' = NextDelay(rt_delay)
    /\ rt_attempt' = rt_attempt + 1
    /\ rt_pc' = "call"
    /\ UNCHANGED <<rt_max_retries, rt_last_exception, rt_result, rt_exc, rt_history>>

\* --------------------------------------------------- ZepGraphMemoryManager

\* The updaters constructed in a run of the model.
MaxUpdaters == 3

Callers == {"t1", "t2"}

Caller(pc, op, sim, pending) == [pc |-> pc, op |-> op, sim |-> sim, pending |-> pending]

Resting == Caller("idle", "", "", <<>>)

\* simulation_id in cls._updaters
InUpdaters(updaters, sim) == \E item \in updaters : item[1] = sim

\* cls._updaters[simulation_id]
UpdaterOf(updaters, sim) == (CHOOSE item \in updaters : item[1] = sim)[2]

\* A plausible slip: the new updater kept next to the old one.
DictSetKeepsOld(updaters, sim, updater) == updaters \cup { <<sim, updater>> }

\* cls._updaters[simulation_id] = updater
DictSet(updaters, sim, updater) ==
    { item \in updaters : item[1] # sim } \cup { <<sim, updater>> }

\* del cls._updaters[simulation_id]
DictDel(updaters, sim) == { item \in updaters : item[1] # sim }

\* list(cls._updaters.items())
RECURSIVE Items(_)
Items(updaters) ==
    IF updaters = {} THEN <<>>
    ELSE LET first == CHOOSE item \in updaters :
                          \A other \in updaters : other[2] >= item[2]
         IN  << first >> \o Items(updaters \ {first})

\* A plausible slip: the lock taken without waiting for it.
LockFreeAlways(lock) == TRUE

\* with cls._lock: the thread goes on when no thread holds the lock
LockFree(lock) == lock = ""

ManagerInit ==
    /\ zm_updaters = {}
    /\ zm_lock = ""
    /\ zm_callers = [t \in Callers |-> Resting]
    /\ zm_created = 0
    /\ zm_stop_called = {}

ManagerIdle ==
    /\ zm_updaters = {}
    /\ zm_lock = ""
    /\ zm_callers = [t \in Callers |-> Caller("off", "", "", <<>>)]
    /\ zm_created = 0
    /\ zm_stop_called = {}

\* A thread calls create_updater, stop_updater or stop_all.
ManagerCall(t) ==
    /\ zm_callers[t].pc = "idle"
    /\ \E op \in {"create_updater", "stop_updater"}, sim \in SimulationIds :
          zm_callers' = [zm_callers EXCEPT ![t] = Caller("acquire", op, sim, <<>>)]
    /\ UNCHANGED <<zm_updaters, zm_lock, zm_created, zm_stop_called>>

ManagerCallStopAll(t) ==
    /\ zm_callers[t].pc = "idle"
    /\ zm_callers' = [zm_callers EXCEPT ![t] = Caller("acquire", "stop_all", "", <<>>)]
    /\ UNCHANGED <<zm_updaters, zm_lock, zm_created, zm_stop_called>>

\* with cls._lock: entered
ManagerAcquire(t) ==
    /\ zm_callers[t].pc = "acquire"
    /\ LockFree(zm_lock)
    /\ zm_lock' = t
    /\ zm_callers' = [zm_callers EXCEPT ![t].pc = "locked"]
    /\ UNCHANGED <<zm_updaters, zm_created, zm_stop_called>>

\* the end of the with block, left by its last statement or by an exception
ManagerRelease(t) ==
    /\ zm_callers[t].pc = "release"
    /\ zm_lock' = ""
    /\ zm_callers' = [zm_callers EXCEPT ![t] = Resting]
    /\ UNCHANGED <<zm_updaters, zm_created, zm_stop_called>>

\* create_updater and stop_updater: if simulation_id in cls._updaters:
\* cls._updaters[simulation_id].stop(), which returns or raises
ManagerStopOld(t) ==
    /\ zm_callers[t].pc = "locked"
    /\ zm_callers[t].op \in {"create_updater", "stop_updater"}
    /\ InUpdaters(zm_updaters, zm_callers[t].sim)
    /\ zm_stop_called' = zm_stop_called \cup {UpdaterOf(zm_updaters, zm_callers[t].sim)}
    /\ \E raises \in BOOLEAN :
          zm_callers' = [zm_callers EXCEPT ![t].pc =
                            IF raises THEN "release"
                            ELSE IF zm_callers[t].op = "create_updater" THEN "construct"
                            ELSE "delete"]
    /\ UNCHANGED <<zm_updaters, zm_lock, zm_created>>

\* the same test when the simulation has no updater
ManagerNoOld(t) ==
    /\ zm_callers[t].pc = "locked"
    /\ zm_callers[t].op \in {"create_updater", "stop_updater"}
    /\ ~InUpdaters(zm_updaters, zm_callers[t].sim)
    /\ zm_callers' = [zm_callers EXCEPT ![t].pc =
                         IF zm_callers[t].op = "create_updater" THEN "construct"
                         ELSE "release"]
    /\ UNCHANGED <<zm_updaters, zm_lock, zm_created, zm_stop_called>>

\* updater = ZepGraphMemoryUpdater(graph_id); updater.start();
\* cls._updaters[simulation_id] = updater
CreateUpdater(t) ==
    /\ zm_callers[t].pc = "construct"
    /\ zm_created < MaxUpdaters
    /\ zm_created' = zm_created + 1
    /\ zm_updaters' = DictSet(zm_updaters, zm_callers[t].sim, zm_created')
    /\ zm_callers' = [zm_callers EXCEPT ![t].pc = "release"]
    /\ UNCHANGED <<zm_lock, zm_stop_called>>

\* the constructor raises (no API key): nothing is entered
CreateUpdaterRaises(t) ==
    /\ zm_callers[t].pc = "construct"
    /\ zm_callers' = [zm_callers EXCEPT ![t].pc = "release"]
    /\ UNCHANGED <<zm_updaters, zm_lock, zm_created, zm_stop_called>>

\* del cls._updaters[simulation_id]
StopUpdaterDelete(t) ==
    /\ zm_callers[t].pc = "delete"
    /\ zm_updaters' = DictDel(zm_updaters, zm_callers[t].sim)
    /\ zm_callers' = [zm_callers EXCEPT ![t].pc = "release"]
    /\ UNCHANGED <<zm_lock, zm_created, zm_stop_called>>

\* stop_all: for simulation_id, updater in list(cls._updaters.items())
StopAllList(t) ==
    /\ zm_callers[t].pc = "locked"
    /\ zm_callers[t].op = "stop_all"
    /\ zm_callers' = [zm_callers EXCEPT ![t].pc = "loop",
                                        ![t].pending = Items(zm_updaters)]
    /\ UNCHANGED <<zm_updaters, zm_lock, zm_created, zm_stop_called>>

\* try: updater.stop(); what it raises is logged
StopAllStop(t) ==
    /\ zm_callers[t].pc = "loop"
    /\ zm_callers[t].pending # <<>>
    /\ zm_stop_called' = zm_stop_called \cup {Head(zm_callers[t].pending)[2]}
    /\ zm_callers' = [zm_callers EXCEPT ![t].pending = Tail(@)]
    /\ UNCHANGED <<zm_updaters, zm_lock, zm_created>>

\* cls._updaters.clear()
StopAllClear(t) ==
    /\ zm_callers[t].pc = "loop"
    /\ zm_callers[t].pending = <<>>
    /\ zm_updaters' = {}
    /\ zm_callers' = [zm_callers EXCEPT ![t].pc = "release"]
    /\ UNCHANGED <<zm_lock, zm_created, zm_stop_called>>

LateIdle == RetryIdle /\ ManagerIdle

\* The operations modelled after the pipeline and its store, at rest.
RestIdle == ChatIdle /\ SearchIdle /\ UpdaterIdle /\ LateIdle

\* The pipeline and its store, at rest.
CoreIdle ==
    ParseIdle /\ ToolIdle /\ ReactIdle /\ PlanIdle /\ GenIdle /\ MgrIdle /\ ListIdle

coreVars ==
    <<parseVars, toolVars, reactVars, planVars, genVars, storeVars, mgrVars,
      listVars>>

\* ----------------------------------------------------------- specifications

SpecParseInit == ParseInit /\ ToolIdle /\ ReactIdle /\ PlanIdle /\ GenIdle /\ MgrIdle /\ ListIdle /\ RestIdle

SpecParseNext ==
    \/ ParseCall /\ UNCHANGED <<toolVars, reactVars, planVars, genVars, storeVars, mgrVars, listVars, restVars>>

SpecToolInit == ToolInit /\ ParseIdle /\ ReactIdle /\ PlanIdle /\ GenIdle /\ MgrIdle /\ ListIdle /\ RestIdle

SpecToolNext ==
    \/ ToolCallAction /\ UNCHANGED <<parseVars, reactVars, planVars, genVars, storeVars, mgrVars, listVars, restVars>>

SpecReactInit == ReactInit /\ ParseIdle /\ ToolIdle /\ PlanIdle /\ GenIdle /\ MgrIdle /\ ListIdle /\ RestIdle

SpecReactNext ==
    \/ ReactCallbackRaises /\ UNCHANGED <<parseVars, toolVars, planVars, genVars, storeVars, mgrVars, listVars, restVars>>
    \/ ReactLlmRaises /\ UNCHANGED <<parseVars, toolVars, planVars, genVars, storeVars, mgrVars, listVars, restVars>>
    \/ ReactFinal /\ UNCHANGED <<parseVars, toolVars, planVars, genVars, storeVars, mgrVars, listVars, restVars>>
    \/ ReactNoCalls /\ UNCHANGED <<parseVars, toolVars, planVars, genVars, storeVars, mgrVars, listVars, restVars>>
    \/ ReactTools /\ UNCHANGED <<parseVars, toolVars, planVars, genVars, storeVars, mgrVars, listVars, restVars>>
    \/ ReactForced /\ UNCHANGED <<parseVars, toolVars, planVars, genVars, storeVars, mgrVars, listVars, restVars>>

SpecReact == SpecReactInit /\ [][SpecReactNext]_vars

SpecPlanInit == PlanInit /\ ParseIdle /\ ToolIdle /\ ReactIdle /\ GenIdle /\ MgrIdle /\ ListIdle /\ RestIdle

SpecPlanNext ==
    \/ PlanCall /\ UNCHANGED <<parseVars, toolVars, reactVars, genVars, storeVars, mgrVars, listVars, restVars>>

SpecPlan == SpecPlanInit /\ [][SpecPlanNext]_vars

Others == <<parseVars, toolVars, reactVars, planVars, mgrVars, listVars, restVars>>

Init ==
    GenInit /\ ParseIdle /\ ToolIdle /\ ReactIdle /\ PlanIdle /\ MgrIdle /\ ListIdle
        /\ RestIdle

Next ==
    \/ StoreOpen /\ UNCHANGED Others
    \/ StoreWrite /\ UNCHANGED Others
    \/ StoreOpenFails /\ UNCHANGED Others
    \/ StoreWriteFails /\ UNCHANGED Others
    \/ CallbackReturns /\ UNCHANGED Others
    \/ CallbackRaises /\ UNCHANGED Others
    \/ GenEnsureFolderFails /\ UNCHANGED Others
    \/ GenStart /\ UNCHANGED Others
    \/ GenPlanning /\ UNCHANGED Others
    \/ GenPlanOutline /\ UNCHANGED Others
    \/ GenGenerating /\ UNCHANGED Others
    \/ GenSectionBegin /\ UNCHANGED Others
    \/ GenReactCallbackRaises /\ UNCHANGED Others
    \/ GenReactContinue /\ UNCHANGED Others
    \/ GenReactRaises /\ UNCHANGED Others
    \/ GenReactReturn /\ UNCHANGED Others
    \/ GenSectionDone /\ UNCHANGED Others
    \/ GenSubBegin /\ UNCHANGED Others
    \/ GenSubDone /\ UNCHANGED Others
    \/ GenAssembleBegin /\ UNCHANGED Others
    \/ GenAssemble /\ UNCHANGED Others
    \/ GenComplete /\ UNCHANGED Others
    \/ GenHandler /\ UNCHANGED Others
    \/ GenReturn /\ UNCHANGED Others

Spec == Init /\ [][Next]_vars

StoreOthers == <<parseVars, toolVars, reactVars, planVars, genVars, listVars, restVars>>

SpecStoreInit ==
    /\ MgrInit /\ ParseIdle /\ ToolIdle /\ ReactIdle /\ PlanIdle /\ GenIdle /\ ListIdle /\ RestIdle

SpecStoreNext ==
    \/ MgrSaveSection /\ UNCHANGED StoreOthers
    \/ MgrAssemble /\ UNCHANGED StoreOthers
    \/ MgrSaveReport /\ UNCHANGED StoreOthers
    \/ MgrGetReport /\ UNCHANGED StoreOthers
    \/ MgrDeleteReport /\ UNCHANGED StoreOthers

SpecStore == SpecStoreInit /\ [][SpecStoreNext]_vars

SpecListInit ==
    /\ ListInit /\ ParseIdle /\ ToolIdle /\ ReactIdle /\ PlanIdle /\ GenIdle /\ MgrIdle /\ RestIdle

SpecListNext ==
    \/ ListCall /\ UNCHANGED <<parseVars, toolVars, reactVars, planVars, genVars,
                                storeVars, mgrVars, restVars>>

SpecList == SpecListInit /\ [][SpecListNext]_vars

SpecTool == SpecToolInit /\ [][SpecToolNext]_vars

SpecParse == SpecParseInit /\ [][SpecParseNext]_vars

SpecChatInit == ChatInit /\ CoreIdle /\ SearchIdle /\ UpdaterIdle /\ LateIdle

SpecSearchInit == SearchInit /\ CoreIdle /\ ChatIdle /\ UpdaterIdle /\ LateIdle

SpecSearchNext ==
    \/ SearchCall /\ UNCHANGED <<coreVars, chatVars, updVars, lateVars>>

SpecSearch == SpecSearchInit /\ [][SpecSearchNext]_vars

UpdaterOthers == <<coreVars, chatVars, searchVars, lateVars>>

SpecUpdaterInit == UpdaterInit /\ CoreIdle /\ ChatIdle /\ SearchIdle /\ LateIdle

SpecUpdaterNext ==
    \/ UpdaterStart /\ UNCHANGED UpdaterOthers
    \/ (\E p \in Producers : AddDoNothing(p)) /\ UNCHANGED UpdaterOthers
    \/ (\E p \in Producers : AddPut(p)) /\ UNCHANGED UpdaterOthers
    \/ (\E p \in Producers : AddLoad(p)) /\ UNCHANGED UpdaterOthers
    \/ (\E p \in Producers : AddStore(p)) /\ UNCHANGED UpdaterOthers
    \/ WorkerTest /\ UNCHANGED UpdaterOthers
    \/ WorkerGet /\ UNCHANGED UpdaterOthers
    \/ WorkerSend /\ UNCHANGED UpdaterOthers
    \/ StopBegin /\ UNCHANGED UpdaterOthers
    \/ FlushTest /\ UNCHANGED UpdaterOthers
    \/ FlushGet /\ UNCHANGED UpdaterOthers
    \/ FlushSend /\ UNCHANGED UpdaterOthers
    \/ StopReturn /\ UNCHANGED UpdaterOthers

SpecUpdater == SpecUpdaterInit /\ [][SpecUpdaterNext]_vars

SpecChatNext ==
    \/ ChatLlmRaises /\ UNCHANGED <<coreVars, searchVars, updVars, lateVars>>
    \/ ChatNoCalls /\ UNCHANGED <<coreVars, searchVars, updVars, lateVars>>
    \/ ChatTools /\ UNCHANGED <<coreVars, searchVars, updVars, lateVars>>
    \/ ChatFinal /\ UNCHANGED <<coreVars, searchVars, updVars, lateVars>>

SpecChat == SpecChatInit /\ [][SpecChatNext]_vars

\* One call of either loop: the section loop or chat.
LoopsOthers ==
    <<parseVars, toolVars, planVars, genVars, storeVars, mgrVars, listVars,
      searchVars, updVars, lateVars>>

SpecLoopsInit ==
    /\ \/ ReactInit /\ ChatIdle
       \/ ReactIdle /\ ChatInit
    /\ ParseIdle /\ ToolIdle /\ PlanIdle /\ GenIdle /\ MgrIdle /\ ListIdle
    /\ SearchIdle /\ UpdaterIdle /\ LateIdle

SpecLoopsNext ==
    \/ ReactCallbackRaises /\ UNCHANGED <<LoopsOthers, chatVars>>
    \/ ReactLlmRaises /\ UNCHANGED <<LoopsOthers, chatVars>>
    \/ ReactFinal /\ UNCHANGED <<LoopsOthers, chatVars>>
    \/ ReactNoCalls /\ UNCHANGED <<LoopsOthers, chatVars>>
    \/ ReactTools /\ UNCHANGED <<LoopsOthers, chatVars>>
    \/ ReactForced /\ UNCHANGED <<LoopsOthers, chatVars>>
    \/ ChatLlmRaises /\ UNCHANGED <<LoopsOthers, reactVars>>
    \/ ChatNoCalls /\ UNCHANGED <<LoopsOthers, reactVars>>
    \/ ChatTools /\ UNCHANGED <<LoopsOthers, reactVars>>
    \/ ChatFinal /\ UNCHANGED <<LoopsOthers, reactVars>>

SpecLoops == SpecLoopsInit /\ [][SpecLoopsNext]_vars

\* The scheduler runs the thread of chat until the call has ended.
SpecChatFair == SpecChat /\ WF_vars(SpecChatNext)

\* One call of _call_with_retry.
RetryOthers == <<coreVars, chatVars, searchVars, updVars, zmVars>>

SpecRetryInit ==
    RetryInit /\ CoreIdle /\ ChatIdle /\ SearchIdle /\ UpdaterIdle /\ ManagerIdle

SpecRetryNext ==
    \/ RetryCallReturns /\ UNCHANGED RetryOthers
    \/ RetryCallRaises /\ UNCHANGED RetryOthers
    \/ RetrySleep /\ UNCHANGED RetryOthers

SpecRetry == SpecRetryInit /\ [][SpecRetryNext]_vars

\* One converse request on a report: chat, with the report folder as it was
\* left by no run or by a completed one.
ConverseOthers ==
    <<parseVars, toolVars, reactVars, planVars, genVars, mgrVars, listVars,
      searchVars, updVars, lateVars>>

SpecConverseInit ==
    /\ ChatInit
    /\ ParseIdle /\ ToolIdle /\ ReactIdle /\ PlanIdle /\ MgrIdle /\ ListIdle
    /\ GenLocalsInit /\ progress_callback = FALSE /\ g_pc = "idle"
    /\ StoreInit \/ PersistedReport
    /\ SearchIdle /\ UpdaterIdle /\ LateIdle

SpecConverseNext ==
    \/ ChatLlmRaises /\ UNCHANGED <<ConverseOthers, storeVars>>
    \/ ChatNoCalls /\ UNCHANGED <<ConverseOthers, storeVars>>
    \/ ChatTools /\ StoreAfter(ChatWrites(c_executed')) /\ UNCHANGED ConverseOthers
    \/ ChatFinal /\ UNCHANGED <<ConverseOthers, storeVars>>

SpecConverse == SpecConverseInit /\ [][SpecConverseNext]_vars

\* Two threads calling ZepGraphMemoryManager.
ManagerOthers == <<coreVars, chatVars, searchVars, updVars, retryVars>>

SpecManagerInit ==
    ManagerInit /\ CoreIdle /\ ChatIdle /\ SearchIdle /\ UpdaterIdle /\ RetryIdle

SpecManagerNext ==
    \/ (\E t \in Callers : ManagerCall(t)) /\ UNCHANGED ManagerOthers
    \/ (\E t \in Callers : ManagerCallStopAll(t)) /\ UNCHANGED ManagerOthers
    \/ (\E t \in Callers : ManagerAcquire(t)) /\ UNCHANGED ManagerOthers
    \/ (\E t \in Callers : ManagerRelease(t)) /\ UNCHANGED ManagerOthers
    \/ (\E t \in Callers : ManagerStopOld(t)) /\ UNCHANGED ManagerOthers
    \/ (\E t \in Callers : ManagerNoOld(t)) /\ UNCHANGED ManagerOthers
    \/ (\E t \in Callers : CreateUpdater(t)) /\ UNCHANGED ManagerOthers
    \/ (\E t \in Callers : CreateUpdaterRaises(t)) /\ UNCHANGED ManagerOthers
    \/ (\E t \in Callers : StopUpdaterDelete(t)) /\ UNCHANGED ManagerOthers
    \/ (\E t \in Callers : StopAllList(t)) /\ UNCHANGED ManagerOthers
    \/ (\E t \in Callers : StopAllStop(t)) /\ UNCHANGED ManagerOthers
    \/ (\E t \in Callers : StopAllClear(t)) /\ UNCHANGED ManagerOthers

SpecManager == SpecManagerInit /\ [][SpecManagerNext]_vars

\* ------------------------------------------------- claims on the parser

\* C8 (as stated): the calls are returned in the order in which they first
\* appear in the text, across both grammars.
C8_TextOrder ==
    p_pc = "returned" =>
        \A i, j \in 1..Len(p_origins) :
            i < j => p_origins[i].start < p_origins[j].start

\* C8 (amended): the Grammar A calls come first, in text order, and the
\* Grammar B calls follow, in text order; no Grammar B call precedes a
\* Grammar A call in the result, wherever it stands in the text.
C8_GrammarThenTextOrder ==
    p_pc = "returned" =>
        /\ Len(p_origins) = Len(p_tool_calls)
        /\ \A i, j \in 1..Len(p_origins) :
            i < j =>
                /\ ~(p_origins[i].grammar = "B" /\ p_origins[j].grammar = "A")
                /\ p_origins[i].grammar = p_origins[j].grammar
                       => p_origins[i].start < p_origins[j].start

\* A text whose Grammar B call stands before a Grammar A block has been parsed.
C8_Witness ==
    /\ p_pc = "returned"
    /\ \E i, j \in 1..Len(p_origins) :
        /\ p_origins[i].grammar = "A"
        /\ p_origins[j].grammar = "B"
        /\ p_origins[j].start < p_origins[i].start

\* C9: every returned call has a name field and a parameters mapping; a
\* Grammar A block without a name field contributes no call.
C9_CallsWellFormed ==
    p_pc = "returned" =>
        \A k \in 1..Len(p_tool_calls) :
            /\ "name" \in p_tool_calls[k].fields
            /\ "parameters" \in p_tool_calls[k].fields
            /\ p_tool_calls[k].parameters.is_mapping


\* ---------------------------------------------- claims on the dispatcher

\* C7: _execute_tool never raises; a collaborator exception comes back as an
\* error text carrying it, and an unregistered name comes back as an
\* "unknown tool" text without the collaborator being called.
C7_DispatchNeverRaises ==
    /\ t_pc # "raised"
    /\ t_pc = "returned" =>
        /\ ~t_result.raised
        /\ t_result.text.kind \in {"result", "error", "unknown"}
        /\ (t_result.zep_called /\ t_outcome # "ok")
              => t_result.text = [kind |-> "error", detail |-> t_outcome]
        /\ t_tool_name \notin ToolNames
              => /\ t_result.text = [kind |-> "unknown", detail |-> t_tool_name]
                 /\ ~t_result.zep_called

\* The collaborator was called, raised, and the dispatcher has returned.
C7_Witness ==
    /\ t_pc = "returned"
    /\ t_result.zep_called
    /\ t_outcome = "raise_api"
    /\ t_result.text.kind = "error"

\* -------------------------------------------- claims on the section loop

IsPrefix(a, b) == Len(a) <= Len(b) /\ a = SubSeq(b, 1, Len(a))

Smaller(a, b) == IF a <= b THEN a ELSE b

\* C4: one call of _generate_section_react executes at most
\* MAX_TOOL_CALLS_PER_SECTION tools; the calls of a reply are executed in
\* parse order until the budget is reached, and the rest of them are not.
C4_ToolBudget ==
    /\ Len(executed) <= MAX_TOOL_CALLS_PER_SECTION
    /\ tool_calls_count = Len(executed)
    /\ IsPrefix(round_executed, round_calls)
    /\ r_exc # "KeyError" =>
          Len(round_executed)
              = Smaller(Len(round_calls), MAX_TOOL_CALLS_PER_SECTION - round_before)

\* The budget ran out in the middle of a reply's calls.
C4_Witness ==
    /\ Len(executed) = MAX_TOOL_CALLS_PER_SECTION
    /\ round_executed # <<>>
    /\ Len(round_executed) < Len(round_calls)

\* C5: the call runs at most K+2 rounds and one forced round, makes at most
\* K+3 model calls, and ends by returning a text unless a model call (or the
\* progress callback) raised.
C5_AlwaysReturnsText ==
    /\ iteration <= MaxIterations
    /\ llm_calls <= MaxIterations + 1
    /\ r_pc = "raised" => r_exc \in {"llm", "callback"}

\* The position of the last marker of a text that has one.
LastMarkerAt(t) == Max({ k \in 1..Len(t) : t[k] = "FA" })

\* C6: a round whose reply holds the final marker ends the call in that
\* round, executes none of the reply's calls, and returns the trimmed text
\* that follows the (last) marker; the reply  Final Answer:\nHello world
\* returns  Hello world.
C6_FinalMarkerEndsRound ==
    HasMarker(last_response) =>
        /\ r_pc = "returned"
        /\ round_executed = <<>>
        /\ tool_calls_count = round_before
        /\ Len(executed) = round_before
        /\ LET rest == SubSeq(last_response, LastMarkerAt(last_response) + 1,
                              Len(last_response))
           IN  /\ r_result # <<>> => r_result[1] # "s" /\ r_result[Len(r_result)] # "s"
               /\ \E a, b \in 0..Len(rest) :
                    /\ a + b <= Len(rest)
                    /\ \A k \in 1..a : rest[k] = "s"
                    /\ \A k \in (Len(rest) - b + 1)..Len(rest) : rest[k] = "s"
                    /\ r_result = SubSeq(rest, a + 1, Len(rest) - b)
        /\ last_response = <<"FA", "s", "Hello", "s", "world">>
              => r_result = <<"Hello", "s", "world">>

\* A loop round returned on a reply that holds the marker and calls as well.
C6_Witness ==
    /\ r_pc = "returned"
    /\ iteration < MaxIterations
    /\ HasMarker(last_response)
    /\ ParseToolCalls(last_response) # <<>>
    /\ r_result = <<"world">>

\* ------------------------------------------------- claims on the planner

\* C3: after plan_outline returns, the outline has 1 to 5 sections and each
\* section 0 to 2 subsections: the first entries of the model's object, in
\* the model's order.
C3_OutlineBounds ==
    (o_pc = "returned" /\ o_llm.kind = "object" /\ o_cb_fail = 0) =>
        LET got  == o_result.outline.sections
            sent == o_llm.response.sections
        IN  /\ Len(got) >= 1
            /\ Len(got) <= 5
            /\ \A i \in 1..Len(got) :
                /\ Len(got[i].subsections) <= 2
                /\ i <= Len(sent) =>
                    /\ got[i].title = sent[i].title
                    /\ \A j \in 1..Len(got[i].subsections) :
                         got[i].subsections[j].title = sent[i].subsections[j].title

\* The model call of plan_outline is reached: neither the first two callback
\* calls nor the context fetch raised before it.
ModelCallReached == o_zep = "ok" /\ o_cb_fail \notin {1, 2}

\* C20: when the planner's model call raises, plan_outline does not raise and
\* returns the fixed fallback outline: the five default sections in their
\* fixed order, each without subsections and with empty content.
C20_FallbackOutline ==
    (o_pc \in {"returned", "raised"} /\ o_llm.kind = "raise" /\ ModelCallReached) =>
        /\ o_pc = "returned"
        /\ o_result.exc = ""
        /\ o_result.outline = DefaultOutline
        /\ Len(o_result.outline.sections) = 5
        /\ \A i \in 1..5 :
              /\ o_result.outline.sections[i].title = <<"default", i, 0>>
              /\ o_result.outline.sections[i].subsections = <<>>
              /\ o_result.outline.sections[i].content = EmptyContent

\* the model call raised with a callback listening, and plan_outline returned
C20_Witness ==
    /\ o_pc = "returned"
    /\ o_llm.kind = "raise"
    /\ ModelCallReached
    /\ o_result.percents = <<0, 30>>

\* ---- C1: the status path

StatusOrder == <<"", "pending", "planning", "generating", "completed">>

Rank(st) == CHOOSE n \in 1..Len(StatusOrder) : StatusOrder[n] = st

\* One change of the status of the Report object: the next status of the
\* path, or failed from a status that is not final.
StatusStep(old, new) ==
    \/ new = old
    \/ old \notin {"completed", "failed"} /\ new = "failed"
    \/ old # "failed" /\ new # "failed" /\ Rank(new) = Rank(old) + 1

\* One change of the status in meta.json: forward on the path (the file is
\* not written at every change of the object), or failed from a status that
\* is not final.
MetaStep(old, new) ==
    \/ new = old
    \/ old \notin {"completed", "failed"} /\ new = "failed"
    \/ old # "failed" /\ new # "failed" /\ Rank(new) > Rank(old)

\* C1: in every run of generate_report the status of the returned Report and
\* the status persisted in meta.json follow pending -> planning -> generating
\* -> completed, or that path cut by one move to failed; a status that is
\* completed or failed never changes again.
C1_StatusPath ==
    [][ /\ StatusStep(report.status, report'.status)
        /\ MetaStep(meta_status, meta_status') ]_vars

\* ---- C2: generate_report returns, it never raises

\* C2: generate_report never propagates an exception; it returns a Report
\* whose status is completed or failed, a failed one carries the message of
\* the exception that reached the except clause, also when saving the failed
\* state raised in its turn.
C2_NeverPropagates ==
    /\ g_pc # "propagated"
    /\ g_pc = "returned" =>
          /\ report.status \in {"completed", "failed"}
          /\ report.status = "failed" => (g_exc # "" /\ report.error = g_exc)
          /\ report.status = "completed" => (g_exc = "" /\ report.error = "")

\* a run that returned failed after saving the failed state raised as well
C2_Witness ==
    /\ g_pc = "returned"
    /\ report.status = "failed"
    /\ swallowed
    /\ report.error = "callback"

\* ---- C10: record writes and concurrent readers

\* C10: whenever a reader runs get_progress, get_report or
\* get_generated_sections, each record it reads is absent or whole: no JSON
\* record fails to decode and no section or final document is empty.
C10_ReadersSeeWholeRecords ==
    /\ GetProgress.seen # "JSONDecodeError"
    /\ GetReport.seen # "JSONDecodeError"
    /\ JsonLoad(outline_file).seen # "JSONDecodeError"
    /\ full_report_file.state # "empty"
    /\ \A n \in 1..Len(SectionsSeen) : SectionsSeen[n] # "empty text"


\* ---- C11 to C14: the section records of a run

\* The order in which generate_report generates: each section, then its
\* subsections in declared order, then the next section.
RECURSIVE GenOrderFrom(_, _)
GenOrderFrom(outl, i) ==
    IF i > Len(outl.sections) THEN <<>>
    ELSE << <<i, 0>> >>
         \o [j \in 1..Len(outl.sections[i].subsections) |-> <<i, j>>]
         \o GenOrderFrom(outl, i + 1)

GenOrder == GenOrderFrom(outline, 1)

\* The section title of the outline behind a key
UnitOf(k) ==
    IF k[2] = 0 THEN outline.sections[k[1]]
    ELSE outline.sections[k[1]].subsections[k[2]]

\* The section files a reader finds in the folder
PresentKeys == { k \in SectionKeys : section_files[k].state # "absent" }

\* C11: at every instant the section records in the folder are those of a
\* prefix of the generation order, and a record that is there stays there
\* with the same content.
C11_RecordsArePrefixAndStable ==
    [][ /\ \E n \in 0..Len(GenOrder') :
              PresentKeys' = { GenOrder'[m] : m \in 1..n }
        /\ \A k \in PresentKeys : section_files'[k] = section_files[k] ]_vars

\* C12: the percentages written to progress.json, and those passed to the
\* caller's callback, never decrease from initialization to completion.
C12_ProgressNeverDecreases ==
    [][ /\ (progress_written.status # "" /\ progress_written'.status # "failed")
              => progress_written'.progress >= progress_written.progress
        /\ cb_last.stage # "" => cb_last'.percent >= cb_last.percent ]_vars

\* C13: sections and subsections are generated in outline order, a section
\* before its subsections and these before the next section; when the model
\* is called for one of them, the records of all the earlier ones are in the
\* folder, whole, and no other.
C13_OutlineOrder ==
    /\ Len(generated_sections) <= Len(GenOrder)
    /\ \A n \in 1..Len(generated_sections) :
          /\ generated_sections[n].content = <<"text", GenOrder[n][1], GenOrder[n][2]>>
          /\ generated_sections[n].title = UnitOf(GenOrder[n]).title
    /\ g_pc = "react" =>
          /\ Len(generated_sections) < Len(GenOrder)
          /\ <<sec_i, sub_j>> = GenOrder[Len(generated_sections) + 1]
          /\ PresentKeys = { GenOrder[m] : m \in 1..Len(generated_sections) }
          /\ \A n \in 1..Len(generated_sections) :
                /\ section_files[GenOrder[n]].state = "full"
                /\ section_files[GenOrder[n]].data.title = generated_sections[n].title
                /\ section_files[GenOrder[n]].data.content = generated_sections[n].content

\* the model is about to be called for the second section, after the first
\* section and its two subsections
C13_Witness ==
    /\ g_pc = "react"
    /\ todo = <<>>
    /\ sec_i = 2
    /\ sub_j = 0
    /\ Len(generated_sections) = 3

\* The exceptions that leave _generate_section_react
GeneratorFailures == {"llm", "KeyError", "round_callback"}

C15_AssembleIdempotent ==
    (m_last.op = "assemble" /\ m_last.out.kind = "text") =>
        /\ full_report_file = Full(m_last.out.value)
        /\ Len(m_last.out.value.parts) = Cardinality(PresentKeys)
        /\ \A n \in 1..Len(m_last.out.value.parts) :
              \E k \in PresentKeys : m_last.out.value.parts[n] = section_files[k].data
        /\ (/\ m_prev.op = "assemble"
            /\ m_prev.out.kind = "text"
            /\ m_prev.arg.outline = m_last.arg.outline) => m_last.out = m_prev.out

\* two calls in a row for the same outline, with section records and a final
\* document in the folder
C15_Witness ==
    /\ m_last.op = "assemble"
    /\ m_prev.op = "assemble"
    /\ m_last.out.kind = "text"
    /\ m_prev.arg.outline = m_last.arg.outline
    /\ Cardinality(PresentKeys) >= 1

\* The order of two section records by their numbers
NumericBefore(a, b) == a[1] < b[1] \/ (a[1] = b[1] /\ a[2] < b[2])

\* C16: assemble_full_report concatenates the section records of the folder
\* in the order of their numeric indices: section i before section i + 1
\* whatever the number of digits, a section before its subsections, the
\* subsections of a section in ascending order.
C16_NumericOrder ==
    (m_last.op = "assemble" /\ m_last.out.kind = "text") =>
        LET got == GetGeneratedSections(Folder)
        IN  /\ m_last.out.value.parts = [n \in 1..Len(got) |-> got[n].content]
            /\ \A n \in 1..(Len(got) - 1) : NumericBefore(got[n].key, got[n + 1].key)

\* No section of the outline has a subsection with subsections of its own.
AtMostTwoLevels(outl) ==
    \A i \in 1..Len(outl.sections) :
        \A j \in 1..Len(outl.sections[i].subsections) :
            outl.sections[i].subsections[j].subsections = <<>>

\* C17: save_report followed by get_report gives back the status and, for an
\* outline of at most two levels, the outline: title, summary, and the
\* titles and contents of the sections and subsections in the same order.
C17_SaveGetRoundTrip ==
    (/\ m_last.op = "get_report"
     /\ m_prev.op = "save_report"
     /\ AtMostTwoLevels(m_prev.arg.report.outl)) =>
        /\ m_last.out.kind = "report"
        /\ m_last.out.value.status = m_prev.arg.report.rep.status
        /\ m_last.out.value.has_outline = m_prev.arg.report.rep.has_outline
        /\ m_prev.arg.report.rep.has_outline =>
              m_last.out.value.outline = m_prev.arg.report.outl

\* the report with the outline of two levels was saved and read back, with
\* an old flat record of the same id lying beside the folder
C17_Witness ==
    /\ m_last.op = "get_report"
    /\ m_prev.op = "save_report"
    /\ m_prev.arg.report.outl = TwoLevels
    /\ m_last.out.kind = "report"
    /\ legacy_json.state = "full"

\* C18: when delete_report returns true, get_report right after it returns
\* nothing; it returns false exactly when no record of the id existed, and
\* a second delete_report returns false.
C18_DeleteRemovesEveryRecord ==
    /\ (m_last.op = "get_report" /\ m_prev.op = "delete_report" /\ m_prev.out.value)
          => m_last.out.kind = "none"
    /\ m_last.op = "delete_report" => (m_last.out.value <=> m_last.arg.existed)
    /\ (m_last.op = "delete_report" /\ m_prev.op = "delete_report")
          => ~m_last.out.value

\* ---- C19: list_reports

\* The stored reports that pass the filter
Matching ==
    { id \in ReportIds :
        LET stored == GetReportIn(l_dir[id], id)
        IN  /\ stored.found
            /\ (l_simulation_id = "None" \/ stored.simulation_id = l_simulation_id) }

\* C19: list_reports returns at most limit reports, all with the given
\* simulation id when there is one, the latest created first, and they are
\* the limit most recent of the stored reports that match: each report
\* once, and none left out that is more recent than one returned.
C19_ListMostRecent ==
    l_pc = "returned" =>
        /\ Len(l_result) <= l_limit
        /\ \A n \in 1..Len(l_result) :
              l_simulation_id = "None" \/ l_result[n].simulation_id = l_simulation_id
        /\ \A n \in 1..(Len(l_result) - 1) :
              ~TimeLess(l_result[n].created_at, l_result[n + 1].created_at)
        /\ Len(l_result) = Min({l_limit, Cardinality(Matching)})
        /\ \A n, k \in 1..Len(l_result) :
              l_result[n].report_id = l_result[k].report_id => n = k
        /\ \A id \in Matching :
              (\A n \in 1..Len(l_result) : l_result[n].report_id # id) =>
                  \A n \in 1..Len(l_result) :
                      ~TimeLess(l_result[n].created_at,
                                GetReportIn(l_dir[id], id).created_at)

\* ------------------------------------------------ more claims on a run

\* C29: a retrieval failure in the planner's context fetch is not replaced
\* by the fallback outline: it leaves plan_outline and reaches the except
\* clause of generate_report, which returns a report with status failed and
\* that error, without outline, and no section record is persisted.
C29_ContextFailureFailsTheJob ==
    g_history.context_fetch = "raise_api" =>
        /\ g_pc \in {"handler", "handler_save", "return", "returned"}
        /\ g_exc = "raise_api"
        /\ ~report.has_outline
        /\ outline = NoOutline
        /\ \A k \in SectionKeys : section_files[k].state = "absent"
        /\ g_pc = "returned" =>
              /\ report.status = "failed"
              /\ report.error = "raise_api"

\* The run has returned after such a failure and the failed status is stored.
C29_Witness ==
    /\ g_pc = "returned"
    /\ g_history.context_fetch = "raise_api"
    /\ report.status = "failed"
    /\ meta_file.state = "full"
    /\ meta_file.data.status = "failed"

\* The content of the section or subsection of key k in outline o
\* (EmptyContent when o has no such section).
ContentOf(o, k) ==
    IF k[1] \notin DOMAIN o.sections THEN EmptyContent
    ELSE IF k[2] = 0 THEN o.sections[k[1]].content
    ELSE IF k[2] \notin DOMAIN o.sections[k[1]].subsections THEN EmptyContent
    ELSE o.sections[k[1]].subsections[k[2]].content

\* C30: in one run the content of each section and subsection is assigned at
\* most once and its record is written at most once; once set, the content
\* is not changed and the record is not rewritten by any later step.
C30_ContentWrittenOnce ==
    /\ [](\A k \in SectionKeys :
            /\ g_history.assigned[k] <= 1
            /\ g_history.opened[k] <= 1)
    /\ [][\A k \in SectionKeys :
            /\ ContentOf(outline, k) # EmptyContent =>
                  ContentOf(outline', k) = ContentOf(outline, k)
            /\ section_files[k].state = "full" =>
                  section_files'[k] = section_files[k]]_vars

\* A completed run over two sections, the first with a subsection.
C30_Witness ==
    /\ g_pc = "returned"
    /\ report.status = "completed"
    /\ g_history.assigned[<<1, 0>>] = 1
    /\ g_history.assigned[<<1, 1>>] = 1
    /\ g_history.assigned[<<2, 0>>] = 1
    /\ g_history.opened[<<1, 1>>] = 1
    /\ section_files[<<2, 0>>].state = "full"

\* ------------------------------------- more claims on the section loop

\* The message tells the model to output the final answer, with no other
\* course offered.
DemandsFinalAnswer(msg) == msg.role = "user" /\ msg.kind \in {"finalize", "stop"}

\* A round of the loop gets its reply in this step.
RoundReplied ==
    /\ r_pc = "loop"
    /\ iteration < MaxIterations
    /\ llm_calls' = llm_calls + 1
    /\ r_exc' # "llm"

\* C25: once 5 tools have been executed, a later round whose reply holds no
\* marker and any number of calls executes none of them, and appends the
\* reply and an observation that demands the final answer.
C25_ExhaustedBudgetRound ==
    (r_pc = "loop" /\ round_calls # <<>> /\ round_before >= 5) =>
        /\ round_executed = <<>>
        /\ tool_calls_count = round_before
        /\ Len(messages) >= 2
        /\ messages[Len(messages) - 1] = Message("assistant", "reply", last_response, <<>>)
        /\ messages[Len(messages)].kind = "observation"
        /\ DemandsFinalAnswer(messages[Len(messages)])

\* C26: a round whose reply holds neither the marker nor a call appends the
\* reply and the instruction to finalize, executes no tool, leaves the count
\* of executions as it was, and the loop goes on with the next round.
C26_NoCallRound ==
    [][(/\ RoundReplied
        /\ ~HasMarker(last_response')
        /\ ParseToolCalls(last_response') = <<>>) =>
            /\ Len(messages') = Len(messages) + 2
            /\ SubSeq(messages', 1, Len(messages)) = messages
            /\ messages'[Len(messages) + 1] =
                  Message("assistant", "reply", last_response', <<>>)
            /\ DemandsFinalAnswer(messages'[Len(messages) + 2])
            /\ executed' = executed
            /\ tool_calls_count' = tool_calls_count
            /\ r_pc' = "loop"
            /\ iteration' = iteration + 1]_vars

\* Such a round after a tool was executed.
C26_Witness ==
    /\ r_pc = "loop"
    /\ tool_calls_count > 0
    /\ ~HasMarker(last_response)
    /\ ParseToolCalls(last_response) = <<>>
    /\ messages[Len(messages)].kind = "finalize"
    /\ iteration > 1

\* C27: when all rounds have ended without marker, one more model call is
\* made after the instruction to stop using tools; no tool is executed for
\* its reply, and the content returned is the reply as it is, or the trimmed
\* text after the marker when it holds one.
C27_ForcedLastCall ==
    /\ [](llm_calls <= MaxIterations + 1)
    /\ [][(/\ r_pc = "loop"
           /\ iteration = MaxIterations
           /\ llm_calls' = llm_calls + 1
           /\ r_exc' # "llm") =>
               /\ llm_calls = MaxIterations
               /\ messages' = Append(messages, Message("user", "stop", <<>>, <<>>))
               /\ executed' = executed
               /\ tool_calls_count' = tool_calls_count
               /\ r_pc' = "returned"
               /\ r_result' =
                     IF "FA" \in Range(last_response')
                     THEN Strip(SubSeq(last_response', LastMarkerAt(last_response') + 1,
                                       Len(last_response')))
                     ELSE last_response']_vars

\* The call after the last round answers with calls and a marker.
C27_Witness ==
    /\ r_pc = "returned"
    /\ iteration = MaxIterations
    /\ llm_calls = MaxIterations + 1
    /\ HasMarker(last_response)
    /\ ParseToolCalls(last_response) # <<>>
    /\ r_result = <<"world">>

\* ------------------------------------------------------- claims on chat

\* What the parser recognises in a text: a match of either grammar.
HasToolCallSyntax(text) ==
    XmlFindIter(text, 1) # <<>> \/ FuncFindIter(text, 1) # <<>>

\* C21: the response text chat returns holds no tool-call syntax of either
\* grammar, whether it returns from a round without a parsed call or after
\* the last round.
C21_ResponseHasNoToolSyntax ==
    c_pc = "returned" => ~HasToolCallSyntax(c_result.response)

\* C22: chat ends for every sequence of replies; it makes at most 3 rounds
\* with tools and at most 4 model calls, the reply of the call after the
\* last round runs no tool, and it returns at the first round whose reply
\* holds no parsed call.
C22_ChatTerminates ==
    /\ [](/\ c_llm_calls <= 4
          /\ c_iteration <= 3
          /\ c_path = "final" =>
                /\ c_iteration = 3
                /\ c_llm_calls = 4
                /\ Len(c_executed) = c_before
          /\ c_path = "no_call" =>
                /\ ParseToolCalls(c_last_response) = <<>>
                /\ c_llm_calls = c_iteration + 1
                /\ Len(c_executed) = c_before
          /\ (c_pc = "loop" /\ c_llm_calls > 0) =>
                ParseToolCalls(c_last_response) # <<>>)
    /\ <>(c_pc \in {"returned", "raised"})

\* Three rounds with tools, then the fourth model call, whose reply holds a
\* call that is not executed.
C22_Witness ==
    /\ c_pc = "returned"
    /\ c_path = "final"
    /\ c_llm_calls = 4
    /\ Len(c_executed) = 3
    /\ ParseToolCalls(c_last_response) # <<>>

\* ------------------------------------------------ claims on both loops

\* -------------------------------------------------------------- claim C34

\* C34: on both return paths chat returns in tool_calls the calls it has
\* executed, in the order of their execution, and a converse request leaves
\* every record of the report folder as it was.
C34_ToolCallsReturnedNothingStored ==
    /\ [](c_pc = "returned" => c_result.tool_calls = c_executed)
    /\ [][UNCHANGED storeVars]_vars

\* A request that used all three rounds on a report whose records are there.
C34_Witness ==
    /\ c_pc = "returned"
    /\ c_path = "final"
    /\ Len(c_result.tool_calls) >= CHAT_MAX_ITERATIONS
    /\ c_result.tool_calls = c_executed
    /\ PersistedReport

\* C28: no reply of the model and no failure of the retrieval collaborator
\* ends the section loop or chat with an exception; they raise only when the
\* model call raises (or, in the section loop, the caller's own callback).
C28_LoopsNeverAbort ==
    /\ r_pc = "raised" => r_exc \in {"llm", "callback"}
    /\ c_pc = "raised" => c_exc = "llm"

\* ----------------------------------------------- claims on local search

\* The score of an edge, summed over its fact and its name.
EdgeScore(e) == MatchScore(e.fact, s_query) + MatchScore(e.name, s_query)

\* The edge holds keywords of the query, and the whole query in no field.
KeywordsOnly(e) ==
    /\ ~Contains(e.fact, s_query)
    /\ ~Contains(e.name, s_query)
    /\ EdgeScore(e) > 0

\* C23: an edge whose fact holds the whole query ranks strictly above every
\* edge that holds only keywords of it: its score is higher, and when both
\* are returned it comes first.
C23_FullMatchRanksFirst ==
    (s_pc = "returned" /\ s_all_edges.ok /\ s_scope \in {"edges", "both"}) =>
        \A a, b \in Range(s_all_edges.items) :
            (Contains(a.fact, s_query) /\ KeywordsOnly(b)) =>
                /\ EdgeScore(a) > EdgeScore(b)
                /\ \A i, j \in DOMAIN s_result.edges :
                      (s_result.edges[i] = a /\ s_result.edges[j] = b) => i < j

\* ------------------------------------------------ claims on the updater

\* -------------------------------------------------------------- claim C33

NodeScore(n) == MatchScore(n.name, s_query) + MatchScore(n.summary, s_query)

\* The position of an item of the result in the listing it was taken from.
PositionIn(items, x) == CHOOSE k \in DOMAIN items : items[k] = x

\* kept holds at most limit of the items, all of a positive score, best
\* first and items of equal score in the order of the listing, and no item
\* left out scores higher than one that was kept.
TopRanked(kept, items, limit, score(_)) ==
    /\ Len(kept) <= limit
    /\ \A i \in DOMAIN kept :
          /\ kept[i] \in Range(items)
          /\ score(kept[i]) > 0
    /\ \A i, j \in DOMAIN kept :
          i < j => \/ score(kept[i]) > score(kept[j])
                   \/ /\ score(kept[i]) = score(kept[j])
                      /\ PositionIn(items, kept[i]) < PositionIn(items, kept[j])
    /\ \A x \in Range(items) \ Range(kept) :
          \A i \in DOMAIN kept : score(x) <= score(kept[i])

\* A listing the search asked for has raised.
ListingFailed ==
    \/ s_scope \in {"edges", "both"} /\ ~s_all_edges.ok
    \/ s_scope = "nodes" /\ ~s_all_nodes.ok
    \/ s_scope = "both" /\ s_all_edges.ok /\ ~s_all_nodes.ok

\* C33: the local search returns, for each scope, at most limit items, all
\* of a score above 0, best first, items of equal score in the order of the
\* listing, and leaves out no item that scores higher than one it returns;
\* it never raises, and its result is empty when the listing of the edges
\* or of the nodes fails.
C33_TopLimitOrEmpty ==
    s_pc = "returned" =>
        /\ TopRanked(s_result.edges, s_all_edges.items, s_limit, EdgeScore)
        /\ TopRanked(s_result.nodes, s_all_nodes.items, s_limit, NodeScore)
        /\ ListingFailed => s_result = SearchResult(<<>>, <<>>, <<>>, s_query)

\* The activities a thread still holds.
InFlight ==
    { th.item : th \in { t \in {worker, stopper} : t.item # 0 } }

\* C24: when stop() returns, the queue is empty and every activity accepted
\* before stop() was called has finished its send, counted as sent or as
\* failed; none is pending or in flight in the consumer.
C24_StopDrains ==
    [][(stopper.pc = "join" /\ stopper'.pc = "returned") =>
          /\ u_queue' = <<>>
          /\ u_before_stop' \subseteq u_done'
          /\ u_before_stop' \cap InFlight' = {}]_vars

\* -------------------------------------------------------------- claim C36

\* C36: the graph receives the activities of an updater in the order in
\* which they were put on the queue (the activities are numbered in that
\* order), also while stop() flushes the queue and the consumer is running.
C36_DispatchInQueueOrder ==
    \A i, j \in DOMAIN u_graph : i < j => u_graph[i] < u_graph[j]

\* -------------------------------------------------------------- claim C31

\* The percentages update_progress is given in the section loop of an
\* outline of total sections whose sections have up to n subsections.
LoopPercents(total, n) ==
    { BaseProgress(i0, total) : i0 \in 0..(total - 1) }
    \cup { DoneProgress(i0, total) : i0 \in 0..(total - 1) }
    \cup UNION { { SubProgress(i0, total, j0, m) : i0 \in 0..(total - 1),
                                                    j0 \in 0..(m - 1) } :
                    m \in 1..n }

\* C31: every percentage in progress.json is an integer in 0..100, or -1
\* exactly when the status written with it is failed; with status planning
\* it lies in 0..20, with status generating in 20..95, and 100 is written
\* only with status completed, whatever the number of sections of the
\* outline, zero included.
C31_ProgressPercentRanges ==
    /\ progress_file.state = "full" =>
          LET d == progress_file.data
          IN  /\ d.progress \in (0..100) \cup {-1}
              /\ d.progress = -1 <=> d.status = "failed"
              /\ d.status = "planning" => d.progress \in 0..20
              /\ d.status = "generating" => d.progress \in 20..95
              /\ d.progress = 100 => d.status = "completed"
    /\ g_pc = "start" =>
          \A total \in 1..MaxPlanSections :
              LoopPercents(total, MaxPlanSubsections) \subseteq 20..95

\* A run over an outline without sections has written 100 with completed.
C31_Witness ==
    /\ Len(outline.sections) = 0
    /\ report.has_outline
    /\ progress_file = Full(ProgressData("completed", 100, NoTitle, <<>>))

\* -------------------------------------------------------------- claim C32

RECURSIVE Doubled(_, _)
Doubled(d, n) == IF n = 0 THEN d ELSE 2 * Doubled(d, n - 1)

\* C32: _call_with_retry calls the operation at most max_retries times (3
\* when none is passed), returns the result of the first call that succeeds
\* and makes no call after it, sleeps between two attempts a delay that
\* starts at RETRY_DELAY and doubles each time, and after the last failed
\* attempt raises the exception of that attempt.
C32_BoundedRetry ==
    LET limit == MaxRetriesOrDefault(rt_max_retries)
        n == Len(rt_history)
    IN  rt_pc # "idle" =>
          /\ n <= limit
          /\ \A k \in 1..(n - 1) : ~rt_history[k].ok
          /\ rt_sleeps = [k \in 1..Len(rt_sleeps) |-> Doubled(RETRY_DELAY, k - 1)]
          /\ Len(rt_sleeps) = (IF rt_pc = "call" THEN n ELSE IF n = 0 THEN 0 ELSE n - 1)
          /\ rt_pc = "returned" =>
                /\ rt_history[n].ok
                /\ rt_result = rt_history[n].value
          /\ rt_pc = "raised" =>
                /\ n = limit
                /\ ~rt_history[n].ok
                /\ rt_exc = rt_history[n].value
          /\ rt_pc \in {"call", "sleep"} => n < limit

\* Three failed attempts with the default: two sleeps, and the third
\* exception is raised.
C32_Witness ==
    /\ rt_max_retries = 0
    /\ rt_pc = "raised"
    /\ Len(rt_history) = ZEP_MAX_RETRIES
    /\ rt_sleeps = <<RETRY_DELAY, 2 * RETRY_DELAY>>
    /\ rt_exc = <<"exc", 3, "api">>

\* -------------------------------------------------------------- claim C35

\* C35: the manager holds at most one updater for a simulation id; the map
\* changes only in a step of the thread that holds the lock; and an updater
\* leaves the map, replaced or removed, only after stop() was called on it.
C35_OneUpdaterUnderLock ==
    /\ [](\A a, b \in zm_updaters : a[1] = b[1] => a = b)
    /\ [][zm_updaters' # zm_updaters =>
             /\ zm_lock \in Callers
             /\ zm_callers'[zm_lock] # zm_callers[zm_lock]
             /\ \A item \in zm_updaters \ zm_updaters' : item[2] \in zm_stop_called]_vars

\* An updater was replaced by create_updater after stop() was called on it,
\* while the other thread was waiting for the lock.
C35_Witness ==
    /\ zm_updaters = { <<"sim_a", 2>> }
    /\ 1 \in zm_stop_called
    /\ \E t \in Callers : zm_callers[t].pc = "acquire"
    /\ \E t \in Callers : zm_callers[t].pc = "release" /\ zm_callers[t].op = "create_updater"

\* -------------------------------------------------------------- claim C37

\* -------------------------------------------------------------- claim C38

\* C38: at every instant at which progress.json holds the status generating,
\* the meta.json get_report reads holds the status generating as well.
C38_MetaFollowsProgress ==
    (progress_file.state = "full" /\ progress_file.data.status = "generating") =>
        /\ meta_file.state = "full"
        /\ meta_file.data.status = "generating"

\* -------------------------------------------------------------- claim C39

\* C39: when generate_report returns a report of status completed, the
\* record of every section and of every subsection of its outline is in the
\* folder, full_report.md holds the markdown the report was given by the
\* assembly, completed_at is set and error is empty; a report returned with
\* status failed has its error set.
C39_CompletedJobIsWhole ==
    g_pc = "returned" =>
        /\ report.status = "completed" =>
              /\ \A n \in 1..Len(GenOrder) :
                    /\ section_files[GenOrder[n]].state = "full"
                    /\ section_files[GenOrder[n]].data.title = UnitOf(GenOrder[n]).title
                    /\ section_files[GenOrder[n]].data.content = UnitOf(GenOrder[n]).content
              /\ report.markdown_content = md_content
              /\ md_content # NoMarkdown
              /\ full_report_file = Full(report.markdown_content)
              /\ report.completed_at
              /\ report.error = ""
        /\ report.status = "failed" => report.error # ""

\* A completed report of two sections, the first with two subsections.
C39_Witness ==
    /\ g_pc = "returned"
    /\ report.status = "completed"
    /\ Len(GenOrder) = 4
    /\ section_files[<<1, 2>>].state = "full"
    /\ full_report_file = Full(md_content)
    /\ Len(md_content.parts) = 4

\* -------------------------------------------------------------- claim C40

\* stop() has returned, the consumer has ended, no call of add_activity is
\* under way and nothing is queued or in hand.
StoppedAndIdle ==
    /\ stopper.pc = "returned"
    /\ u_thread = "dead"
    /\ u_queue = <<>>
    /\ InFlight = {}
    /\ \A p \in Producers : producers[p].pc = "idle"

\* C40: whatever the interleaving of the producers, the consumer and the
\* flush of stop(), every accepted activity is counted once: when the
\* updater is stopped and idle, total_sent + failed_count = total_activities
\* = the number of activities put on the queue.
C40_CountersAddUp ==
    StoppedAndIdle =>
        /\ u_total_activities = u_put
        /\ u_total_sent + u_failed_count = u_total_activities

\* The label completed_section_titles holds for a section or a subsection.
LabelOf(k) == IF k[2] = 0 THEN UnitOf(k).title ELSE SubLabel(UnitOf(k).title)

\* C37: at every instant the labels of completed_sections in progress.json
\* are those of the first sections and subsections of the generation order,
\* in that order, and the record of each of them is in the folder, whole.
C37_CompletedLabelsArePersisted ==
    progress_file.state = "full" =>
        LET labels == progress_file.data.completed_sections
            order == IF labels = <<>> THEN <<>> ELSE GenOrder
        IN  /\ Len(labels) <= Len(order)
            /\ \A n \in 1..Len(labels) :
                  /\ labels[n] = LabelOf(order[n])
                  /\ section_files[order[n]].state = "full"
                  /\ section_files[order[n]].data.title = UnitOf(order[n]).title

\* The progress record lists a section and its subsection while the next
\* section is being generated.
C37_Witness ==
    /\ g_pc = "react"
    /\ sec_i = 2
    /\ progress_file.state = "full"
    /\ progress_file.data.completed_sections = << <<"sec", 1, 0>>, <<"label", 1, 1>> >>
    /\ section_files[<<1, 1>>].state = "full"

====
